---- MODULE Spec2Model ----
(***************************************************************************)
(* Geometry and tiling engine of indoor-map-lib: the path command          *)
(* interpreter (svg_path_parser.rs), the bounding box (bounding_box.rs),   *)
(* the transform parser, scene tree builder and spatial selector           *)
(* (svg_parser.rs), the tile enumerator and pyramid driver                 *)
(* (bin/svg_splitter), the polygon area and centroid (util.rs), the room    *)
(* shapes of a floor image (svg_room.rs) and the validation and            *)
(* compilation of map data (map_data).                                     *)
(*                                                                         *)
(* Numbers: the program computes in f32/f64.  The coordinates of this      *)
(* model are small integers, on which the program's additions,             *)
(* subtractions, comparisons and multiplications are exact; the division   *)
(* by 2^z in Layer::bounds_for_tile_coords is applied to edge lengths that *)
(* are multiples of 2^z, where it is exact too.  The results of            *)
(* shoelace_area and centroid are fractions, and NaN and the infinities    *)
(* where the code divides by zero (see util.rs below).  The 32-bit words   *)
(* in which the splitter computes 2^zoom are pairs of 16-bit halves.       *)
(***************************************************************************)
EXTENDS Integers, Sequences, FiniteSets, TLC

VARIABLES
    raw_commands,   \* path interpreter: the path data (sequence of raw commands)
    path,           \* path interpreter: Option of the Path built from raw_commands
    data_box,       \* path interpreter: Option of BoundingBox::from(raw_commands)
    box_a,          \* intersects: the receiver (self)
    box_b,          \* intersects: the argument (other)
    hit,            \* intersects: Option of the value returned
    events,         \* tree builder: the markup event stream handed to from_svg_data
    parsed,         \* tree builder: Option of the anyhow::Result of from_svg_data
    tree,           \* selector: the element select_with is called on
    query,          \* selector: the bounding box select_with is called with
    selected,       \* selector: Option of the Option returned by the first call
    reselected,     \* selector: Option of the Option returned by the call on the result
    layer,          \* splitter: the Layer (root_element, bounds)
    min_zoom,       \* splitter: min_zoom_level handed to TileIterator::new
    iter,           \* splitter: the TileIterator (coords, max_zoom_level)
    yielded,        \* splitter: the coordinates next() has returned, in order
    nones,          \* splitter: how many times next() has returned None
    tiles,          \* splitter: the tiles main's loop has produced, in order
    previous,       \* splitter: Option of what the iterator before the fresh one yielded
    transform_text, \* transform parser: the text of a transform attribute
    transformed,    \* transform parser: Option of the Result of parse_transform
    polygon,        \* polygon: the vertex list handed to shoelace_area and centroid
    poly_area,      \* polygon: Option of shoelace_area of polygon
    poly_rotated,   \* polygon: Option of shoelace_area of polygon rotated cyclically
    poly_reversed,  \* polygon: Option of shoelace_area of polygon reversed
    poly_center,    \* polygon: Option of centroid of polygon
    room,           \* polygon: the uncompiled Room that is compiled with outline polygon
    compiled,       \* polygon: Option of the compiled::Room of Room::compile
    map_input,      \* map data: the JSON text handed to MapData::new
    map_data,       \* map data: Option of the Result of MapData::new
    unique_floors,  \* map data: Option of unique applied to the floor numbers
    undefined_edges, \* map data: Option of undefined applied to the ids of the edges
    wide_zoom,      \* zoom arithmetic: the zoom level 2^zoom is computed for
    build,          \* zoom arithmetic: whether the build checks integer overflow
    coords_pow,     \* zoom arithmetic: Option of what max_coords_for_zoom_level computes
    bounds_pow,     \* zoom arithmetic: Option of what 2_i32.pow(coords.zoom) computes
    uncompiled_map, \* map compiler: the uncompiled MapData compile is called on
    image_files,    \* map compiler: Option of the content of each image file, by path
    compiled_map    \* map compiler: Option of the outcome of MapData::compile

vars == << raw_commands, path, data_box, box_a, box_b, hit, events, parsed, tree, query,
           selected, reselected, layer, min_zoom, iter, yielded, nones, tiles, previous,
           transform_text, transformed, polygon, poly_area, poly_rotated, poly_reversed,
           poly_center, room, compiled, map_input, map_data, unique_floors,
           undefined_edges, wide_zoom, build, coords_pow, bounds_pow, uncompiled_map,
           image_files, compiled_map >>

pathVars == << raw_commands, path, data_box >>
boxVars == << box_a, box_b, hit >>
parseVars == << events, parsed >>
selectVars == << tree, query, selected, reselected >>
tileVars == << layer, min_zoom, iter, yielded, nones, tiles, previous >>
transformVars == << transform_text, transformed >>
polygonVars == << polygon, poly_area, poly_rotated, poly_reversed, poly_center, room, compiled >>
mapVars == << map_input, map_data, unique_floors, undefined_edges >>
zoomVars == << wide_zoom, build, coords_pow, bounds_pow >>
compileVars == << uncompiled_map, image_files, compiled_map >>

(***************************************************************************)
(* Option<T> and Result<T, E>                                              *)
(***************************************************************************)
None == [some |-> FALSE]
Some(v) == [some |-> TRUE, val |-> v]

\* anyhow::Result: Ok(v), Err(e); a panic! unwinds through every caller, which the
\* model carries as a third outcome that `?` passes on like an Err
Ok(v) == [ok |-> TRUE, val |-> v]
Err(e) == [ok |-> FALSE, panic |-> FALSE, err |-> e]
Panic(e) == [ok |-> FALSE, panic |-> TRUE, err |-> e]

Range(f) == { f[i] : i \in DOMAIN f }

(***************************************************************************)
(* Bounds of the model                                                     *)
(***************************************************************************)
MaxCmds == 3      \* raw commands of a path
MaxEvents == 3    \* events of a markup stream
MaxCoord == 2     \* largest top-left coordinate of the boxes handed to intersects
MaxSize == 1      \* largest width and height of the boxes handed to intersects
MaxZoom == 2      \* largest zoom level handed to TileIterator::new
MaxNones == 2     \* calls of next() that return None
MaxArgs == 7      \* numbers between the parentheses of a transform function
MaxPoints == 4    \* points of a polygon
MaxFloors == 2    \* floors of a MapData
MaxWideZoom == 33 \* largest zoom level 2^zoom is computed for in 32 bits
MaxShapes == 2    \* events of a floor image

(***************************************************************************)
(* Vector2 arithmetic (nalgebra)                                           *)
(***************************************************************************)
VAdd(a, b) == << a[1] + b[1], a[2] + b[2] >>
VSub(a, b) == << a[1] - b[1], a[2] - b[2] >>
VScale(k, a) == << k * a[1], k * a[2] >>

(***************************************************************************)
(* svg_path_parser.rs                                                      *)
(***************************************************************************)
\* mutant of chunks_exact: the first complete group only
chunks_exact_once(parameters, n) ==
    [ i \in 1..(IF Len(parameters) >= n THEN 1 ELSE 0) |-> SubSeq(parameters, 1, n) ]

\* slice::chunks_exact(n): the complete groups of n; a shorter rest is dropped
chunks_exact(parameters, n) ==
    [ i \in 1..(Len(parameters) \div n) |->
        SubSeq(parameters, (i - 1) * n + 1, i * n) ]

RECURSIVE fold_relative(_, _)
\* the fold of from_coords_position's Relative arm
fold_relative(coords, last_command) ==
    IF coords = << >> THEN << >>
    ELSE LET command == VAdd(last_command, Head(coords))
         IN  << command >> \o fold_relative(Tail(coords), command)

from_coords_position(coords, position, last_command) ==
    IF position = "Absolute" THEN coords
    ELSE fold_relative(coords, last_command)

from_raw_command(raw_command, last_command) ==
    LET kind == raw_command.kind
        position == raw_command.position
        parameters == raw_command.parameters
        chunks(n) == chunks_exact(parameters, n)
        ends(n) == [ i \in DOMAIN chunks(n) |-> << chunks(n)[i][n - 1], chunks(n)[i][n] >> ]
    IN  CASE kind = "Close" -> << >>
          [] kind = "HorizontalLine" ->
                from_coords_position(
                    IF position = "Absolute"
                    THEN [ i \in DOMAIN chunks(1) |-> << chunks(1)[i][1], last_command[1] >> ]
                    ELSE [ i \in DOMAIN chunks(1) |-> << chunks(1)[i][1], 0 >> ],
                    position, last_command)
          [] kind = "VerticalLine" ->
                from_coords_position(
                    IF position = "Absolute"
                    THEN [ i \in DOMAIN chunks(1) |-> << last_command[1], chunks(1)[i][1] >> ]
                    ELSE [ i \in DOMAIN chunks(1) |-> << 0, chunks(1)[i][1] >> ],
                    position, last_command)
          [] kind \in {"SmoothQuadraticCurve", "Move", "Line"} ->
                from_coords_position(ends(2), position, last_command)
          [] kind \in {"SmoothCubicCurve", "QuadraticCurve"} ->
                from_coords_position(ends(4), position, last_command)
          [] kind = "CubicCurve" ->
                from_coords_position(ends(6), position, last_command)
          [] kind = "EllipticalArc" ->
                from_coords_position(ends(7), position, last_command)

RECURSIVE path_fold(_, _, _)
\* the fold of Path::from: (acc, last_command) over the raw commands
path_fold(raw, acc, last_command) ==
    IF raw = << >> THEN acc
    ELSE LET command == from_raw_command(Head(raw), last_command)
         IN  IF command # << >>
             THEN path_fold(Tail(raw), acc \o command, command[Len(command)])
             ELSE path_fold(Tail(raw), acc, last_command)

RECURSIVE path_fold_origin(_, _)
\* mutant of Path_from: every raw command is read against the origin, the running
\* point is not carried from one raw command to the next
path_fold_origin(raw, acc) ==
    IF raw = << >> THEN acc
    ELSE path_fold_origin(Tail(raw), acc \o from_raw_command(Head(raw), << 0, 0 >>))

Path_from_origin(raw) == path_fold_origin(raw, << >>)

Path_from(raw) == path_fold(raw, << >>, << 0, 0 >>)

(***************************************************************************)
(* bounding_box.rs                                                         *)
(***************************************************************************)
\* stands for f32::MAX (3.4028235e38): larger than every coordinate of the model
F32_MAX == 1000000
F32_MIN == 0 - F32_MAX

BoundingBox_new(top_left, size) == [top_left |-> top_left, size |-> size]

\* mutant of intersects: <= for <, so boxes that only touch do not intersect
intersects_closed(self, other) ==
    LET self_left_of_other == self.top_left[1] + self.size[1] <= other.top_left[1]
        other_left_of_self == other.top_left[1] + other.size[1] <= self.top_left[1]
        self_below_other == self.top_left[2] + self.size[2] <= other.top_left[2]
        other_below_self == other.top_left[2] + other.size[2] <= self.top_left[2]
    IN  ~(self_left_of_other \/ other_left_of_self \/ self_below_other \/ other_below_self)

intersects(self, other) ==
    LET self_left_of_other == self.top_left[1] + self.size[1] < other.top_left[1]
        other_left_of_self == other.top_left[1] + other.size[1] < self.top_left[1]
        self_below_other == self.top_left[2] + self.size[2] < other.top_left[2]
        other_below_self == other.top_left[2] + other.size[2] < self.top_left[2]
    IN  ~(self_left_of_other \/ other_left_of_self \/ self_below_other \/ other_below_self)

get_bottom_right(bounding_box) == VAdd(bounding_box.top_left, bounding_box.size)

\* mutant of as_view_box: the size is written before the top-left corner
as_view_box_size_first(bounding_box) ==
    << bounding_box.size[1], bounding_box.size[2],
       bounding_box.top_left[1], bounding_box.top_left[2] >>

\* the text "{} {} {} {}" of the four numbers, kept as the four numbers
as_view_box(bounding_box) ==
    << bounding_box.top_left[1], bounding_box.top_left[2],
       bounding_box.size[1], bounding_box.size[2] >>

RECURSIVE extent_fold(_, _)
\* the loop of BoundingBox::from(&Data): acc = <<min_x, max_x, min_y, max_y>>
extent_fold(commands, acc) ==
    IF commands = << >> THEN acc
    ELSE LET command == Head(commands)
         IN  extent_fold(Tail(commands),
                << IF command[1] < acc[1] THEN command[1] ELSE acc[1],
                   IF command[1] > acc[2] THEN command[1] ELSE acc[2],
                   IF command[2] < acc[3] THEN command[2] ELSE acc[3],
                   IF command[2] > acc[4] THEN command[2] ELSE acc[4] >>)

BoundingBox_from(data) ==
    LET m == extent_fold(Path_from(data), << F32_MAX, F32_MIN, F32_MAX, F32_MIN >>)
        top_left == << m[1], m[3] >>
        bottom_right == << m[2], m[4] >>
    IN  BoundingBox_new(top_left, VSub(bottom_right, top_left))

BoundingSquare_new(top_left, size) == [top_left |-> top_left, size |-> size]

edge_length(square) == square.size

as_bounding_box(square) ==
    BoundingBox_new(square.top_left, << square.size, square.size >>)

(***************************************************************************)
(* transform.rs: Matrix3<f64> as its three rows                            *)
(***************************************************************************)
Matrix3_new(m11, m12, m13, m21, m22, m23, m31, m32, m33) ==
    << << m11, m12, m13 >>, << m21, m22, m23 >>, << m31, m32, m33 >> >>

MatMul(a, b) ==
    [ i \in 1..3 |-> [ j \in 1..3 |->
        a[i][1] * b[1][j] + a[i][2] * b[2][j] + a[i][3] * b[3][j] ] ]

MatVec(a, v) ==
    [ i \in 1..3 |-> a[i][1] * v[1] + a[i][2] * v[2] + a[i][3] * v[3] ]

translate(translation) ==
    Matrix3_new(1, 0, translation[1], 0, 1, translation[2], 0, 0, 1)

\* cos and sin of a multiple of 90 degrees, taken as the exact values 0, 1, -1
\* (the f64 results differ from them by at most about 1e-16)
Cos(deg) == CASE deg % 360 = 0 -> 1 [] deg % 360 = 180 -> 0 - 1 [] OTHER -> 0
Sin(deg) == CASE deg % 360 = 90 -> 1 [] deg % 360 = 270 -> 0 - 1 [] OTHER -> 0

rotate_deg(rotation) ==
    Matrix3_new(Cos(rotation), 0 - Sin(rotation), 0,
                Sin(rotation), Cos(rotation), 0,
                0, 0, 1)

rotate_deg_about(rotation, about) ==
    MatMul(MatMul(translate(about), rotate_deg(rotation)), translate(VScale(0 - 1, about)))

scale(factor) == Matrix3_new(factor[1], 0, 0, 0, factor[2], 0, 0, 0, 1)

(***************************************************************************)
(* util.rs                                                                 *)
(***************************************************************************)
RECURSIVE reduce_max(_, _)
reduce_max(a, rest) ==
    IF rest = << >> THEN a
    ELSE reduce_max(IF a > Head(rest) THEN a ELSE Head(rest), Tail(rest))

max_f64(seq) == IF seq = << >> THEN None ELSE Some(reduce_max(Head(seq), Tail(seq)))

\* f32 values of shoelace_area and centroid.  A finite value is the fraction
\* num / den in lowest terms with den > 0, computed exactly (the rounding of f32 is
\* left out; on the integer coordinates of the model every sum and product of the
\* code is exact).  The values that are not finite are Inf, an infinity of either
\* sign, and NaN.
RECURSIVE Gcd(_, _)
Gcd(a, b) == IF b = 0 THEN a ELSE Gcd(b, a % b)

Abs(n) == IF n < 0 THEN 0 - n ELSE n

Fin(num, den) ==
    [kind |-> "finite", num |-> num \div Gcd(Abs(num), den), den |-> den \div Gcd(Abs(num), den)]

Inf == [kind |-> "inf", num |-> 0, den |-> 0]

NaN == [kind |-> "nan", num |-> 0, den |-> 0]

\* an integer as f32
F32(n) == Fin(n, 1)

\* a * b: inf * 0 is NaN
FMul(a, b) ==
    CASE a.kind = "nan" \/ b.kind = "nan" -> NaN
      [] a.kind = "finite" /\ b.kind = "finite" -> Fin(a.num * b.num, a.den * b.den)
      [] a.kind = "finite" -> IF a.num = 0 THEN NaN ELSE Inf
      [] b.kind = "finite" -> IF b.num = 0 THEN NaN ELSE Inf
      [] OTHER -> Inf

\* a / b: x / 0 is an infinity, 0 / 0 and inf / inf are NaN
FDiv(a, b) ==
    CASE a.kind = "nan" \/ b.kind = "nan" -> NaN
      [] a.kind = "finite" /\ b.kind = "finite" ->
            IF b.num = 0 THEN (IF a.num = 0 THEN NaN ELSE Inf)
            ELSE IF b.num > 0 THEN Fin(a.num * b.den, a.den * b.num)
            ELSE Fin(0 - a.num * b.den, a.den * (0 - b.num))
      [] a.kind = "finite" -> F32(0)
      [] b.kind = "finite" -> Inf
      [] OTHER -> NaN

\* f32::abs
FAbs(a) == IF a.kind = "finite" THEN Fin(Abs(a.num), a.den) ELSE a

\* the item this.zip(next) pairs with points[i]: points.iter().cycle().skip(1)
next_point(points, i) == points[(i % Len(points)) + 1]

\* this_x * next_y - next_x * this_y of the i-th pair
diff(points, i) ==
    points[i][1] * next_point(points, i)[2] - next_point(points, i)[1] * points[i][2]

RECURSIVE double_area(_, _)
\* the .sum() of shoelace_area over the first n pairs
double_area(points, n) ==
    IF n = 0 THEN 0 ELSE double_area(points, n - 1) + diff(points, n)

\* mutant of shoelace_area: the pair of the last point and the first is left out
shoelace_area_open(points) ==
    FMul(Fin(1, 2),
         F32(double_area(points, IF points = << >> THEN 0 ELSE Len(points) - 1)))

shoelace_area(points) == FMul(Fin(1, 2), F32(double_area(points, Len(points))))

RECURSIVE center_fold(_, _, _)
\* the fold of centroid over the first n pairs: (acc_x + x, acc_y + y), from
\* (0.0, 0.0); axis selects this_x + next_x or this_y + next_y
center_fold(points, n, axis) ==
    IF n = 0 THEN 0
    ELSE center_fold(points, n - 1, axis)
            + (points[n][axis] + next_point(points, n)[axis]) * diff(points, n)

\* centroid after its `let coefficient`
centroid_of(coefficient, center_x, center_y) ==
    << FMul(coefficient, F32(center_x)), FMul(coefficient, F32(center_y)) >>

\* mutant of centroid: the coefficient is 1 / (2 * area)
centroid_half(points) ==
    centroid_of(FDiv(F32(1), FMul(F32(2), shoelace_area(points))),
                center_fold(points, Len(points), 1), center_fold(points, Len(points), 2))

centroid(points) ==
    centroid_of(FDiv(F32(1), FMul(F32(6), shoelace_area(points))),
                center_fold(points, Len(points), 1), center_fold(points, Len(points), 2))

RECURSIVE unique_loop(_, _)
\* the `for item in items` of unique, map being the HashSet built so far
unique_loop(items, map) ==
    IF items = << >> THEN Ok(map)
    ELSE IF Head(items) \notin map THEN unique_loop(Tail(items), map \cup {Head(items)})
    ELSE Err(Head(items))

unique(items) == unique_loop(items, {})

\* the unit value ()
Unit == << >>

RECURSIVE undefined(_, _)
\* items.find(|item| !defined.contains(item))
undefined(items, defined) ==
    IF items = << >> THEN Ok(Unit)
    ELSE IF Head(items) \notin defined THEN Err(Head(items))
    ELSE undefined(Tail(items), defined)

(***************************************************************************)
(* map_data: mod.rs, uncompiled.rs, compiled.rs                            *)
(*                                                                         *)
(* A HashMap or HashSet is the sequence of its entries in the order its    *)
(* iterator yields them, which is any order: vertices is the sequence of   *)
(* the entries [id, floor] with distinct ids, rooms the sequence of the    *)
(* rooms, the vertices of a room the sequence of its distinct ids.  The    *)
(* fields the functions modelled here only carry along (image, offsets,    *)
(* location, tags, names, directed) are left out.                          *)
(***************************************************************************)
Floor(number) == [number |-> number]

Vertex(id, floor) == [id |-> id, floor |-> floor]

Edge(from, to) == [from |-> from, to |-> to]

Room(vertices, center) == [vertices |-> vertices, center |-> center]

MapData(floors, vertices, edges, rooms) ==
    [floors |-> floors, vertices |-> vertices, edges |-> edges, rooms |-> rooms]

\* MapDataError and MapDataDeserializeError
RepeatedFloorNumber(floor_number) == [error |-> "RepeatedFloorNumber", of |-> floor_number]

UndefinedFloorNumber(floor_number) == [error |-> "UndefinedFloorNumber", of |-> floor_number]

UndefinedVertexId(vertex_id) == [error |-> "UndefinedVertexId", of |-> vertex_id]

InvalidJson == [error |-> "InvalidJson", of |-> ""]

\* Result::map_err with the closure that wraps the item in the variant named error
map_err(result, error) ==
    IF result.ok THEN result ELSE Err([error |-> error, of |-> result.err])

\* self.floors.iter().map(|f| &f.number)
floor_numbers_of(self) == [ i \in DOMAIN self.floors |-> self.floors[i].number ]

\* self.vertices.iter().map(|(_id, v)| &v.floor)
vertex_floors(self) == [ i \in DOMAIN self.vertices |-> self.vertices[i].floor ]

\* self.vertices.keys().collect()
vertex_keys(self) == { self.vertices[i].id : i \in DOMAIN self.vertices }

RECURSIVE room_vertex_ids(_)
\* self.rooms.values().map(|r| &r.vertices).flatten()
room_vertex_ids(rooms) ==
    IF rooms = << >> THEN << >> ELSE Head(rooms).vertices \o room_vertex_ids(Tail(rooms))

RECURSIVE edge_vertex_ids(_)
\* self.edges.iter().map(|e| vec![&e.from, &e.to]).flatten()
edge_vertex_ids(edges) ==
    IF edges = << >> THEN << >>
    ELSE << Head(edges).from, Head(edges).to >> \o edge_vertex_ids(Tail(edges))

\* verify: the check of the vertices of the edges, and Ok(self)
verify_edges(self) ==
    IF ~undefined(edge_vertex_ids(self.edges), vertex_keys(self)).ok
    THEN map_err(undefined(edge_vertex_ids(self.edges), vertex_keys(self)), "UndefinedVertexId")
    ELSE Ok(self)

\* verify: the check of the vertices of the rooms, and what follows it
verify_rooms(self) ==
    IF ~undefined(room_vertex_ids(self.rooms), vertex_keys(self)).ok
    THEN map_err(undefined(room_vertex_ids(self.rooms), vertex_keys(self)), "UndefinedVertexId")
    ELSE verify_edges(self)

\* verify: the check of the floors of the vertices, and what follows it
verify_floors(self, floor_numbers) ==
    IF ~undefined(vertex_floors(self), floor_numbers).ok
    THEN map_err(undefined(vertex_floors(self), floor_numbers), "UndefinedFloorNumber")
    ELSE verify_rooms(self)

\* mutant of MapData_verify: the floors of the vertices are checked before the
\* floor numbers are checked for repeats
MapData_verify_vertices_first(self) ==
    IF ~undefined(vertex_floors(self), Range(floor_numbers_of(self))).ok
    THEN map_err(undefined(vertex_floors(self), Range(floor_numbers_of(self))),
                 "UndefinedFloorNumber")
    ELSE IF ~unique(floor_numbers_of(self)).ok
    THEN map_err(unique(floor_numbers_of(self)), "RepeatedFloorNumber")
    ELSE verify_rooms(self)

MapData_verify(self) ==
    IF ~unique(floor_numbers_of(self)).ok
    THEN map_err(unique(floor_numbers_of(self)), "RepeatedFloorNumber")
    ELSE verify_floors(self, unique(floor_numbers_of(self)).val)

\* The JSON text is kept as what serde_json makes of it: the MapData it
\* deserializes to, or nothing when it is no JSON text of a MapData.
Json(value) == [parses |-> TRUE, value |-> value]

NoJson == [parses |-> FALSE]

\* serde_json::from_str::<Self>(json_data)
from_str(json_data) == IF json_data.parses THEN Ok(json_data.value) ELSE Err(InvalidJson)

\* the `?` of MapData::new on the two Results, each error converted by #[from]
MapData_new(json_data) ==
    IF ~from_str(json_data).ok THEN from_str(json_data)
    ELSE MapData_verify(from_str(json_data).val)

\* compiled::Room
CompiledRoom(vertices, center, outline, area) ==
    [vertices |-> vertices, center |-> center, outline |-> outline, area |-> area]

Room_compile(self, outline) ==
    CompiledRoom(self.vertices,
                 IF self.center.some THEN self.center.val ELSE centroid(outline),
                 outline,
                 FAbs(shoelace_area(outline)))

(***************************************************************************)
(* svg_room.rs: the room shapes of a floor image                           *)
(*                                                                         *)
(* The text of an id attribute is kept in the two pieces                   *)
(* strip_prefix("room") takes it apart into: [prefix, rest], the text      *)
(* being prefix followed by rest and prefix being "room" exactly when the  *)
(* text starts with it.  The text of a width, height, x or y attribute is  *)
(* [n, unit], a number followed by a unit suffix.  The text of a d         *)
(* attribute is [data] when path::Data::parse reads it as the raw commands *)
(* data, and a record without data when it does not.                       *)
(***************************************************************************)
\* SvgRoomShape::Rect and SvgRoomShape::Path
ShapeRect(width, height, x, y) ==
    [shape |-> "Rect", width |-> width, height |-> height, x |-> x, y |-> y]

ShapePath(path_data) == [shape |-> "Path", path_data |-> path_data]

SvgRoom(number, shape) == [number |-> number, shape |-> shape]

transform_svg_coords(coords, offsets) ==
    << coords[1] - offsets[1], (0 - coords[2]) + offsets[2] >>

\* SimpleSvgPath::from(path_data).into_iter(): the points of the path data.  The
\* sources use SimpleSvgPath without defining it; its points are those of the path
\* command interpreter, which svg_path_parser.rs has as Path::from
SimpleSvgPath_from(path_data) == Path_from(path_data)

\* the vec! of the Rect arm of outline
rect_corners(x, y, width, height) ==
    << << x, y >>, << x, y + height >>, << x + width, y + height >>, << x + width, y >> >>

\* .map(|coords| transform_svg_coords(coords, offsets)).collect()
map_transform_svg_coords(points, offsets) ==
    [ i \in DOMAIN points |-> transform_svg_coords(points[i], offsets) ]

SvgRoom_outline(self, offsets) ==
    IF self.shape.shape = "Rect"
    THEN map_transform_svg_coords(
             rect_corners(self.shape.x, self.shape.y, self.shape.width, self.shape.height),
             offsets)
    ELSE map_transform_svg_coords(SimpleSvgPath_from(self.shape.path_data), offsets)

\* attr.get("id").ok_or(())?.strip_prefix("room").ok_or(())?.to_owned()
room_number(attr) ==
    IF "id" \notin DOMAIN attr THEN Err(<< >>)
    ELSE IF attr["id"].prefix # "room" THEN Err(<< >>)
    ELSE Ok(attr["id"].rest)

\* attr.get(name).ok_or(())?.parse().map_err(|_| ())?: f32::from_str takes no unit
parse_f32_attr(attr, name) ==
    IF name \notin DOMAIN attr THEN Err(<< >>)
    ELSE IF attr[name].unit # "" THEN Err(<< >>)
    ELSE Ok(attr[name].n)

\* path::Data::parse(attr.get("d").ok_or(())?).map_err(|_| ())?
parse_path_data(attr) ==
    IF "d" \notin DOMAIN attr THEN Err(<< >>)
    ELSE IF "data" \notin DOMAIN attr["d"] THEN Err(<< >>)
    ELSE Ok(attr["d"].data)

\* the Event::Tag("rect", _, attr) arm of try_from
try_from_rect(attr) ==
    LET number == room_number(attr)
        width == parse_f32_attr(attr, "width")
        height == parse_f32_attr(attr, "height")
        x == parse_f32_attr(attr, "x")
        y == parse_f32_attr(attr, "y")
    IN  CASE ~number.ok -> number
          [] ~width.ok -> width
          [] ~height.ok -> height
          [] ~x.ok -> x
          [] ~y.ok -> y
          [] OTHER -> Ok(SvgRoom(number.val, ShapeRect(width.val, height.val, x.val, y.val)))

\* the Event::Tag("path", _, attr) arm of try_from
try_from_path(attr) ==
    LET number == room_number(attr)
        path_data == parse_path_data(attr)
    IN  CASE ~number.ok -> number
          [] ~path_data.ok -> path_data
          [] OTHER -> Ok(SvgRoom(number.val, ShapePath(path_data.val)))

\* impl TryFrom<Event> for SvgRoom
SvgRoom_try_from(event) ==
    IF event.kind # "Tag" THEN Err(<< >>)
    ELSE CASE event.name = "rect" -> try_from_rect(event.attributes)
           [] event.name = "path" -> try_from_path(event.attributes)
           [] OTHER -> Err(<< >>)

(***************************************************************************)
(* map_data/uncompiled.rs: MapData::compile                                *)
(*                                                                         *)
(* compile reads floors[i].image and floors[i].offsets and looks the rooms *)
(* up by number: here a floor is [number, image, offsets] and rooms, a     *)
(* HashMap, is the function from the declared room numbers to the rooms.   *)
(* files is the file system: the function from an image path to the        *)
(* Option of the events svg::read finds in the file of that path, None     *)
(* when there is no such file.                                             *)
(***************************************************************************)
FloorImage(number, image, offsets) ==
    [number |-> number, image |-> image, offsets |-> offsets]

\* HashMap::remove and HashMap::insert
remove(map, key) == [ k \in DOMAIN map \ {key} |-> map[k] ]

insert(map, key, value) ==
    [ k \in DOMAIN map \cup {key} |-> IF k = key THEN value ELSE map[k] ]

\* fs::read_to_string(image_path).expect("Image file doesn't exist") of every floor
get_floor_images(self, files) ==
    IF \E i \in DOMAIN self.floors : ~files[self.floors[i].image].some
    THEN Panic("Image file doesn't exist")
    ELSE Ok([ i \in DOMAIN self.floors |->
                << files[self.floors[i].image].val, self.floors[i].offsets >> ])

RECURSIVE svg_rooms(_)
\* svg_reader.filter_map(|event| SvgRoom::try_from(event).ok())
svg_rooms(image_content) ==
    IF image_content = << >> THEN << >>
    ELSE (IF SvgRoom_try_from(Head(image_content)).ok
          THEN << SvgRoom_try_from(Head(image_content)).val >> ELSE << >>)
         \o svg_rooms(Tail(image_content))

RECURSIVE compile_floor_last(_, _, _)
\* mutant of compile_floor: the room is looked up and left in self.rooms, so a later
\* shape of the same number is compiled too and replaces the earlier one
compile_floor_last(rooms_left, offsets, state) ==
    IF rooms_left = << >> THEN state
    ELSE IF Head(rooms_left).number \notin DOMAIN state.rooms
    THEN compile_floor_last(Tail(rooms_left), offsets, state)
    ELSE compile_floor_last(
             Tail(rooms_left), offsets,
             [rooms |-> state.rooms,
              compiled_rooms |->
                  insert(state.compiled_rooms, Head(rooms_left).number,
                         Room_compile(state.rooms[Head(rooms_left).number],
                                      SvgRoom_outline(Head(rooms_left), offsets)))])

RECURSIVE compile_floor(_, _, _)
\* the `for svg_room in Self::svg_rooms(&image_content)` of compile: rooms_left are
\* the svg rooms not yet visited, state is [rooms |-> self.rooms, compiled_rooms]
compile_floor(rooms_left, offsets, state) ==
    IF rooms_left = << >> THEN state
    ELSE IF Head(rooms_left).number \notin DOMAIN state.rooms
    THEN compile_floor(Tail(rooms_left), offsets, state)
    ELSE compile_floor(
             Tail(rooms_left), offsets,
             [rooms |-> remove(state.rooms, Head(rooms_left).number),
              compiled_rooms |->
                  insert(state.compiled_rooms, Head(rooms_left).number,
                         Room_compile(state.rooms[Head(rooms_left).number],
                                      SvgRoom_outline(Head(rooms_left), offsets)))])

RECURSIVE compile_floors(_, _)
\* the `for (image_content, offsets) in self.get_floor_images(base_path)` of compile
compile_floors(floor_images, state) ==
    IF floor_images = << >> THEN state
    ELSE compile_floors(Tail(floor_images),
                        compile_floor(svg_rooms(Head(floor_images)[1]),
                                      Head(floor_images)[2], state))

\* compiled::MapData
CompiledMapData(floors, vertices, rooms, edges) ==
    [floors |-> floors, vertices |-> vertices, rooms |-> rooms, edges |-> edges]

MapData_compile(self, files) ==
    IF ~get_floor_images(self, files).ok THEN get_floor_images(self, files)
    ELSE Ok(CompiledMapData(
                self.floors, self.vertices,
                compile_floors(get_floor_images(self, files).val,
                               [rooms |-> self.rooms, compiled_rooms |-> << >>])
                    .compiled_rooms,
                self.edges))

(***************************************************************************)
(* svg_parser.rs: SvgElement and the scene tree builder                    *)
(*                                                                         *)
(* An attribute map is a function from attribute names to values.  A value *)
(* is the text of the attribute, kept in the pieces the code takes it      *)
(* apart into: [n, unit] for a number followed by a unit suffix, [name,    *)
(* data_str] for a transform function and the text between its             *)
(* parentheses, [data] for path data.                                      *)
(* An event of the markup stream is [kind |-> "Tag", name, type,           *)
(* attributes] with type Start, End or Empty, or [kind |-> k] with k one   *)
(* of Text, Comment, Declaration, Instruction, Error.                      *)
(***************************************************************************)
SvgElement(bounding_box, children, tag_name, attributes) ==
    [bounding_box |-> bounding_box, children |-> children,
     tag_name |-> tag_name, attributes |-> attributes]

NoAttributes == [k \in {} |-> None]

empty_root(bounding_box) == SvgElement(bounding_box, << >>, "svg", NoAttributes)

Identity == Matrix3_new(1, 0, 0, 0, 1, 0, 0, 0, 1)

\* value.trim_end_matches("mm").parse(): the number when nothing but "mm" follows it
num_from_attr(attributes, key) ==
    IF key \notin DOMAIN attributes THEN Ok(None)
    ELSE LET value == attributes[key]
             rest == IF value.unit = "mm" THEN "" ELSE value.unit
         IN  IF rest = "" THEN Ok(Some(value.n)) ELSE Err("ParseFloatError")

\* The text between the parentheses of a transform function is the sequence of its
\* tokens: a number, a space or a comma.
NumTok(n) == [tok |-> "num", n |-> n]
Space == [tok |-> " "]
Comma == [tok |-> ","]

RECURSIVE split(_, _, _)
\* str::split(pattern): the pieces between the separators, empty pieces included;
\* piece is the piece read so far
split(data_str, separators, piece) ==
    IF data_str = << >> THEN << piece >>
    ELSE IF Head(data_str) \in separators
    THEN << piece >> \o split(Tail(data_str), separators, << >>)
    ELSE split(Tail(data_str), separators, Append(piece, Head(data_str)))

\* str::split_whitespace(): the non-empty pieces between runs of whitespace
split_whitespace(data_str) ==
    SelectSeq(split(data_str, {Space}, << >>), LAMBDA piece : piece # << >>)

\* str::parse::<f64>(): the number of a piece that is one number
parse_f64(num) ==
    IF Len(num) = 1 /\ num[1].tok = "num" THEN Ok(num[1].n) ELSE Err("ParseFloatError")

\* collect, `num.parse()` having returned first and the pieces after it rest
collect_both(first, rest) ==
    IF ~first.ok THEN first
    ELSE IF ~rest.ok THEN rest
    ELSE Ok(<< first.val >> \o rest.val)

RECURSIVE collect_f64(_)
\* .map(|num| num.parse()).collect::<Result<Vec<f64>, _>>(): the numbers, or the
\* error of the first piece that does not parse
collect_f64(pieces) ==
    IF pieces = << >> THEN Ok(<< >>)
    ELSE collect_both(parse_f64(Head(pieces)), collect_f64(Tail(pieces)))

\* parse_matrix_transform after `let data = ..?`
matrix_of_data(data) ==
    IF ~data.ok THEN data
    ELSE IF Len(data.val) # 6
    THEN Err("Wrong number of arguments to matrix transform")
    ELSE Ok(Matrix3_new(data.val[1], data.val[3], data.val[5],
                        data.val[2], data.val[4], data.val[6], 0, 0, 1))

parse_matrix_transform(matrix) == matrix_of_data(collect_f64(split_whitespace(matrix)))

\* parse_translate_transform after `let data = ..?`
translate_of_data(data) ==
    IF ~data.ok THEN data
    ELSE IF data.val = << >> \/ Len(data.val) > 2
    THEN Err("Wrong number of arguments to translate transform")
    ELSE Ok(translate(<< data.val[1], IF Len(data.val) >= 2 THEN data.val[2] ELSE 0 >>))

parse_translate_transform(translate_text) ==
    translate_of_data(collect_f64(split(translate_text, {Space, Comma}, << >>)))

\* mutant of rotate_of_data: two numbers are taken as a rotation about (x, 0)
rotate_of_data_two(data) ==
    IF ~data.ok THEN data
    ELSE CASE Len(data.val) = 1 -> Ok(rotate_deg(data.val[1]))
           [] Len(data.val) = 3 ->
                Ok(rotate_deg_about(data.val[1], << data.val[2], data.val[3] >>))
           [] Len(data.val) = 0 -> Err("Not enough arguments to rotate transform")
           [] Len(data.val) = 2 -> Ok(rotate_deg_about(data.val[1], << data.val[2], 0 >>))
           [] OTHER -> Err("Too many arguments to rotate transform")

\* parse_rotate_transform after `let data = ..?`
rotate_of_data(data) ==
    IF ~data.ok THEN data
    ELSE CASE Len(data.val) = 1 -> Ok(rotate_deg(data.val[1]))
           [] Len(data.val) = 3 ->
                Ok(rotate_deg_about(data.val[1], << data.val[2], data.val[3] >>))
           [] Len(data.val) = 0 -> Err("Not enough arguments to rotate transform")
           [] Len(data.val) = 2 -> Err("Expected a y-coordinate to rotate about")
           [] OTHER -> Err("Too many arguments to rotate transform")

parse_rotate_transform(rotate) ==
    rotate_of_data(collect_f64(split(rotate, {Space, Comma}, << >>)))

\* parse_scale_transform after `let data = ..?`
scale_of_data(data) ==
    IF ~data.ok THEN data
    ELSE CASE Len(data.val) = 1 -> Ok(scale(<< data.val[1], data.val[1] >>))
           [] Len(data.val) = 2 -> Ok(scale(<< data.val[1], data.val[2] >>))
           [] Len(data.val) = 0 -> Err("Not enough arguments to scale transform")
           [] OTHER -> Err("Too many arguments to scale transform")

parse_scale_transform(scale_text) ==
    scale_of_data(collect_f64(split(scale_text, {Space, Comma}, << >>)))

\* transformation: [name |-> the text before the parenthesis, data_str |-> the tokens
\* between the parentheses]
parse_transform(transformation) ==
    CASE transformation.name = "matrix" -> parse_matrix_transform(transformation.data_str)
      [] transformation.name = "translate" ->
            parse_translate_transform(transformation.data_str)
      [] transformation.name = "rotate" -> parse_rotate_transform(transformation.data_str)
      [] transformation.name = "scale" -> parse_scale_transform(transformation.data_str)
      [] OTHER -> Panic("Unimplemented transformation")

\* mutant of local_geometry: width and height are read as the top-left, x and y as
\* the size
local_geometry_size_as_top_left(name, attributes) ==
    IF name = "path"
    THEN IF "d" \notin DOMAIN attributes THEN Err("Missing path data")
         ELSE LET bounds == BoundingBox_from(attributes["d"].data)
              IN  Ok(<< bounds.size, bounds.top_left >>)
    ELSE LET width == num_from_attr(attributes, "width")
             height == num_from_attr(attributes, "height")
             x == num_from_attr(attributes, "x")
             y == num_from_attr(attributes, "y")
             or0(r) == IF r.val.some THEN r.val.val ELSE 0
         IN  CASE ~width.ok -> width
               [] ~height.ok -> height
               [] ~x.ok -> x
               [] ~y.ok -> y
               [] OTHER -> Ok(<< << or0(x), or0(y) >>, << or0(width), or0(height) >> >>)

\* the `match name` of parse_tag: Ok(<<size, local top-left>>) or the error of a `?`
local_geometry(name, attributes) ==
    IF name = "path"
    THEN IF "d" \notin DOMAIN attributes THEN Err("Missing path data")
         ELSE LET bounds == BoundingBox_from(attributes["d"].data)
              IN  Ok(<< bounds.size, bounds.top_left >>)
    ELSE LET width == num_from_attr(attributes, "width")
             height == num_from_attr(attributes, "height")
             x == num_from_attr(attributes, "x")
             y == num_from_attr(attributes, "y")
             or0(r) == IF r.val.some THEN r.val.val ELSE 0
         IN  CASE ~width.ok -> width
               [] ~height.ok -> height
               [] ~x.ok -> x
               [] ~y.ok -> y
               [] OTHER -> Ok(<< << or0(width), or0(height) >>, << or0(x), or0(y) >> >>)

\* mutant of effective_transform: the transform of the element is multiplied from
\* the left, parsed * cumulative
effective_transform_parsed_first(current_transformation_matrix, attributes) ==
    IF "transform" \in DOMAIN attributes
    THEN LET parsed_transform == parse_transform(attributes["transform"])
         IN  IF parsed_transform.ok
             THEN Ok(MatMul(parsed_transform.val, current_transformation_matrix))
             ELSE parsed_transform
    ELSE Ok(current_transformation_matrix)

\* the `match attributes.get("transform")` of parse_tag
effective_transform(current_transformation_matrix, attributes) ==
    IF "transform" \in DOMAIN attributes
    THEN LET parsed_transform == parse_transform(attributes["transform"])
         IN  IF parsed_transform.ok
             THEN Ok(MatMul(current_transformation_matrix, parsed_transform.val))
             ELSE parsed_transform
    ELSE Ok(current_transformation_matrix)

RECURSIVE parse_event(_, _, _)
RECURSIVE parse_tag(_, _, _, _, _, _)
RECURSIVE parse_children_loop(_, _, _, _)

bottom_rights(children, axis) ==
    [ i \in DOMAIN children |-> get_bottom_right(children[i].bounding_box)[axis] ]

\* mutant of start_element: the right and bottom edges of the children replace the
\* element's own as soon as it has a child
start_element_children_only(global_top_left, size, children, name, attributes) ==
    LET bottom_right == VAdd(global_top_left, size)
        right == bottom_right[1]
        bottom == bottom_right[2]
        child_max_right == max_f64(bottom_rights(children, 1))
        child_max_bottom == max_f64(bottom_rights(children, 2))
        max_right == IF child_max_right.some THEN child_max_right.val ELSE right
        max_bottom == IF child_max_bottom.some THEN child_max_bottom.val ELSE bottom
        actual_size == VSub(<< max_right, max_bottom >>, global_top_left)
    IN  SvgElement(BoundingBox_new(global_top_left, actual_size), children, name, attributes)

\* the Type::Start arm of parse_tag, after parse_children returned `children`
start_element(global_top_left, size, children, name, attributes) ==
    LET bottom_right == VAdd(global_top_left, size)
        right == bottom_right[1]
        bottom == bottom_right[2]
        child_max_right == max_f64(bottom_rights(children, 1))
        child_max_bottom == max_f64(bottom_rights(children, 2))
        max_right == IF child_max_right.some
                     THEN (IF child_max_right.val > right THEN child_max_right.val ELSE right)
                     ELSE right
        max_bottom == IF child_max_bottom.some
                      THEN (IF child_max_bottom.val > bottom THEN child_max_bottom.val ELSE bottom)
                      ELSE bottom
        actual_size == VSub(<< max_right, max_bottom >>, global_top_left)
    IN  SvgElement(BoundingBox_new(global_top_left, actual_size), children, name, attributes)

\* parser: the events; pos: the index of the next event the Peekable parser yields.
\* parse_event, parse_tag and parse_children return [res |-> the Result, pos |-> the
\* parser's position after the call].  The value a `let` of the code binds is handed
\* to the operator that models the code after that `let`.

\* parse_children after `Self::parse_event(..)?` returned r
children_after_event(r, parser, current_transformation_matrix, children) ==
    IF ~r.res.ok THEN r
    ELSE parse_children_loop(parser, r.pos, current_transformation_matrix,
            IF r.res.val.some THEN Append(children, r.res.val.val) ELSE children)

\* mutant of parse_children_loop: the end of the stream before the close tag is an
\* error
parse_children_loop_closed(parser, pos, current_transformation_matrix, children) ==
    IF pos > Len(parser)
    THEN [res |-> Err("Unexpected end of SVG"), pos |-> pos]
    ELSE IF parser[pos].kind = "Tag" /\ parser[pos].type = "End"
    THEN [res |-> Ok(children), pos |-> pos + 1]
    ELSE children_after_event(parse_event(current_transformation_matrix, parser, pos),
                              parser, current_transformation_matrix, children)

parse_children_loop(parser, pos, current_transformation_matrix, children) ==
    IF pos > Len(parser)
    THEN [res |-> Ok(children), pos |-> pos]
    ELSE IF parser[pos].kind = "Tag" /\ parser[pos].type = "End"
    THEN [res |-> Ok(children), pos |-> pos + 1]
    ELSE children_after_event(parse_event(current_transformation_matrix, parser, pos),
                              parser, current_transformation_matrix, children)

parse_children(parser, pos, current_transformation_matrix) ==
    parse_children_loop(parser, pos, current_transformation_matrix, << >>)

\* the Type::Start arm after `Self::parse_children(..)?` returned c
start_after_children(c, global_top_left, size, name, attributes) ==
    IF ~c.res.ok THEN c
    ELSE [res |-> Ok(start_element(global_top_left, size, c.res.val, name, attributes)),
          pos |-> c.pos]

\* the `match children_type` of parse_tag
match_children_type(global_top_left, size, matrix, name, children_type, attributes, parser, pos) ==
    CASE children_type = "End" ->
            [res |-> Err("Unexpected end tag"), pos |-> pos]
      [] children_type = "Empty" ->
            [res |-> Ok(SvgElement(BoundingBox_new(global_top_left, size),
                                   << >>, name, attributes)),
             pos |-> pos]
      [] children_type = "Start" ->
            start_after_children(parse_children(parser, pos, matrix),
                                 global_top_left, size, name, attributes)

\* current_transformation_matrix * local_top_left_homogenous, its x and y
global_top_left_of(matrix, local_top_left) ==
    SubSeq(MatVec(matrix, << local_top_left[1], local_top_left[2], 1 >>), 1, 2)

\* mutant of parse_tag_after_lets: the size is mapped through the transform too, as
\* the difference of the images of the two corners
parse_tag_after_lets_size_mapped(geometry, matrix, name, children_type, attributes, parser, pos) ==
    IF ~geometry.ok THEN [res |-> geometry, pos |-> pos]
    ELSE IF ~matrix.ok THEN [res |-> matrix, pos |-> pos]
    ELSE match_children_type(
            global_top_left_of(matrix.val, geometry.val[2]),
            VSub(global_top_left_of(matrix.val, VAdd(geometry.val[2], geometry.val[1])),
                 global_top_left_of(matrix.val, geometry.val[2])),
            matrix.val, name, children_type, attributes, parser, pos)

\* parse_tag after its two `let`s: geometry and matrix are their Results
parse_tag_after_lets(geometry, matrix, name, children_type, attributes, parser, pos) ==
    IF ~geometry.ok THEN [res |-> geometry, pos |-> pos]
    ELSE IF ~matrix.ok THEN [res |-> matrix, pos |-> pos]
    ELSE match_children_type(global_top_left_of(matrix.val, geometry.val[2]),
                             geometry.val[1], matrix.val, name, children_type,
                             attributes, parser, pos)

parse_tag(current_transformation_matrix, name, children_type, attributes, parser, pos) ==
    parse_tag_after_lets(local_geometry(name, attributes),
                         effective_transform(current_transformation_matrix, attributes),
                         name, children_type, attributes, parser, pos)

\* Some(Self::parse_tag(..)).transpose()
transpose_some(t) ==
    IF t.res.ok THEN [res |-> Ok(Some(t.res.val)), pos |-> t.pos] ELSE t

parse_event(current_transformation_matrix, parser, pos) ==
    IF pos > Len(parser)
    THEN [res |-> Err("Unexpected end of SVG"), pos |-> pos]
    ELSE CASE parser[pos].kind = "Error" ->
                [res |-> Err("svg parser error"), pos |-> pos + 1]
           [] parser[pos].kind \in {"Text", "Comment", "Declaration", "Instruction"} ->
                [res |-> Ok(None), pos |-> pos + 1]
           [] parser[pos].kind = "Tag" ->
                transpose_some(parse_tag(current_transformation_matrix, parser[pos].name,
                                         parser[pos].type, parser[pos].attributes,
                                         parser, pos + 1))

\* the None arm of from_svg_data: second is what the second parse_event returned
second_event(second) ==
    IF ~second.res.ok THEN second
    ELSE IF second.res.val.some
    THEN [res |-> Ok(second.res.val.val), pos |-> second.pos]
    ELSE [res |-> Err("Expected SVG data but did not find any"), pos |-> second.pos]

\* the match of from_svg_data: first is what the first parse_event returned
first_event(first, parser) ==
    IF ~first.res.ok THEN first
    ELSE IF first.res.val.some THEN [res |-> Ok(first.res.val.val), pos |-> first.pos]
    ELSE second_event(parse_event(Identity, parser, first.pos))

\* [res |-> anyhow::Result<SvgElement>, pos |-> how far the parser was read]
from_svg_data_at(parser) == first_event(parse_event(Identity, parser, 1), parser)

from_svg_data(parser) == from_svg_data_at(parser).res

RECURSIVE select_children(_, _)
RECURSIVE select_children_reversed(_, _)
RECURSIVE select_with(_, _)
\* mutant of select_children: the selected children are collected in reverse order
select_children_reversed(children, bounding_box) ==
    IF children = << >> THEN << >>
    ELSE LET child == select_with(Head(children), bounding_box)
             rest == select_children_reversed(Tail(children), bounding_box)
         IN  IF child.some THEN rest \o << child.val >> ELSE rest

\* the filter_map of select_with over self.children
select_children(children, bounding_box) ==
    IF children = << >> THEN << >>
    ELSE LET child == select_with(Head(children), bounding_box)
             rest == select_children(Tail(children), bounding_box)
         IN  IF child.some THEN << child.val >> \o rest ELSE rest

\* mutant of select_with: the children are kept as they are, not selected
select_with_shallow(self, bounding_box) ==
    IF intersects(self.bounding_box, bounding_box) THEN Some(self) ELSE None

select_with(self, bounding_box) ==
    IF intersects(self.bounding_box, bounding_box)
    THEN Some(SvgElement(self.bounding_box,
                         select_children(self.children, bounding_box),
                         self.tag_name, self.attributes))
    ELSE None

set_attr(attributes, name, value) ==
    [ k \in DOMAIN attributes \cup {name} |-> IF k = name THEN value ELSE attributes[k] ]

delete_attr(attributes, name) ==
    [ k \in DOMAIN attributes \ {name} |-> attributes[k] ]

(***************************************************************************)
(* bin/svg_splitter: tile.rs, tile_iterator.rs, layer.rs, main.rs          *)
(***************************************************************************)
TileCoords_new(location, zoom) == [location |-> location, zoom |-> zoom]

Tile_new(image) == [image |-> image]

\* mutant of TileIterator_new: an iterator over an empty zoom range starts ended
TileIterator_new_checked(min_zoom_level, max_zoom_level) ==
    [coords |-> IF min_zoom_level <= max_zoom_level
                THEN Some(TileCoords_new(<< 0, 0 >>, min_zoom_level))
                ELSE None,
     max_zoom_level |-> max_zoom_level]

TileIterator_new(min_zoom_level, max_zoom_level) ==
    [coords |-> Some(TileCoords_new(<< 0, 0 >>, min_zoom_level)),
     max_zoom_level |-> max_zoom_level]

\* 32-bit arithmetic.  A 32-bit word is << high, low >>, its two 16-bit halves.  An
\* operation returns [word |-> the result wrapped to 32 bits, overflow |-> whether
\* the result does not fit the type].

\* a * b of two u32 (signed = FALSE) or of two i32 that are not negative (signed =
\* TRUE), by halves: top is the part of the product from bit 32 on
mul(a, b, signed) ==
    LET low == a[2] * b[2]
        mid == a[1] * b[2] + a[2] * b[1] + low \div 2 ^ 16
        top == a[1] * b[1] + mid \div 2 ^ 16
    IN  [word |-> << mid % 2 ^ 16, low % 2 ^ 16 >>,
         overflow |-> top > 0 \/ (signed /\ mid % 2 ^ 16 >= 2 ^ 15)]

RECURSIVE pow_loop(_, _, _, _, _)
\* the loop of core's pow (exponentiation by squaring): acc * base where the lowest
\* bit of exp is set, which is the result when exp is 1, then exp / 2 and base *
\* base; overflowed: whether a product before this turn overflowed
pow_loop(base, acc, exp, overflowed, signed) ==
    IF exp % 2 = 1
    THEN IF exp = 1
         THEN [word |-> mul(acc, base, signed).word,
               overflow |-> overflowed \/ mul(acc, base, signed).overflow]
         ELSE pow_loop(mul(base, base, signed).word, mul(acc, base, signed).word,
                       exp \div 2,
                       \/ overflowed
                       \/ mul(acc, base, signed).overflow
                       \/ mul(base, base, signed).overflow,
                       signed)
    ELSE pow_loop(mul(base, base, signed).word, acc, exp \div 2,
                  overflowed \/ mul(base, base, signed).overflow, signed)

\* 2_u32.pow(exp) and 2_i32.pow(exp)
pow(exp, signed) ==
    IF exp = 0 THEN [word |-> << 0, 1 >>, overflow |-> FALSE]
    ELSE pow_loop(<< 0, 2 >>, << 0, 1 >>, exp, FALSE, signed)

\* word - 1 of a u32
sub1(word) ==
    [word |-> IF word[2] > 0 THEN << word[1], word[2] - 1 >>
              ELSE IF word[1] > 0 THEN << word[1] - 1, 2 ^ 16 - 1 >>
              ELSE << 2 ^ 16 - 1, 2 ^ 16 - 1 >>,
     overflow |-> word = << 0, 0 >>]

\* what the program does with the result r of an operation: a build with overflow
\* checks (debug) panics where r overflowed, a build without them (release) goes
\* on with the wrapped word; the overflow is kept beside the outcome
outcome(r, profile) ==
    [res |-> IF r.overflow /\ profile = "debug"
             THEN Panic("arithmetic overflow") ELSE Ok(r.word),
     overflow |-> r.overflow]

\* `- 1` applied to the outcome p of 2_u32.pow(zoom_level)
minus_one(p, profile) ==
    IF ~p.res.ok THEN p
    ELSE [res |-> outcome(sub1(p.res.val), profile).res,
          overflow |-> p.overflow \/ sub1(p.res.val).overflow]

\* mutant of max_coords_for_zoom_level_u32: the power is computed as an i32
max_coords_for_zoom_level_i32(zoom_level, profile) ==
    minus_one(outcome(pow(zoom_level, TRUE), profile), profile)

\* max_coords_for_zoom_level in the width of the code: 2_u32.pow(zoom_level) - 1
max_coords_for_zoom_level_u32(zoom_level, profile) ==
    minus_one(outcome(pow(zoom_level, FALSE), profile), profile)

\* 2_i32.pow(coords.zoom) of Layer::bounds_for_tile_coords
bounds_for_tile_coords_pow(zoom, profile) == outcome(pow(zoom, TRUE), profile)

\* mutant of max_coords_for_zoom_level: the number of columns, not the last column
max_coords_for_zoom_level_count(zoom_level) == 2 ^ zoom_level

\* max_coords_for_zoom_level as a number, for the zoom levels up to 30, where
\* 2_u32.pow(zoom_level) - 1 does not overflow (max_coords_for_zoom_level_u32)
max_coords_for_zoom_level(zoom_level) == 2 ^ zoom_level - 1

\* mutant of TileIterator_next: the row is advanced before the column
TileIterator_next_row_first(self) ==
    IF ~self.coords.some THEN [self |-> self, ret |-> None]
    ELSE
    LET coords == self.coords.val
        max_coords == max_coords_for_zoom_level(coords.zoom)
        col == coords.location[1]
        row == coords.location[2]
        after ==
            IF row < max_coords
            THEN Some(TileCoords_new(<< col, row + 1 >>, coords.zoom))
            ELSE IF col < max_coords
            THEN Some(TileCoords_new(<< col + 1, 0 >>, coords.zoom))
            ELSE IF coords.zoom < self.max_zoom_level
            THEN Some(TileCoords_new(<< 0, 0 >>, coords.zoom + 1))
            ELSE None
    IN  [self |-> [self EXCEPT !.coords = after], ret |-> Some(coords)]

\* Iterator::next: [self |-> the iterator after the call, ret |-> the value returned]
TileIterator_next(self) ==
    IF ~self.coords.some THEN [self |-> self, ret |-> None]
    ELSE
    LET coords == self.coords.val
        max_coords == max_coords_for_zoom_level(coords.zoom)
        col == coords.location[1]
        row == coords.location[2]
        after ==
            IF col < max_coords
            THEN Some(TileCoords_new(<< col + 1, row >>, coords.zoom))
            ELSE IF row < max_coords
            THEN Some(TileCoords_new(<< 0, row + 1 >>, coords.zoom))
            ELSE IF coords.zoom < self.max_zoom_level
            THEN Some(TileCoords_new(<< 0, 0 >>, coords.zoom + 1))
            ELSE None
    IN  [self |-> [self EXCEPT !.coords = after], ret |-> Some(coords)]

Layer_new(svg_data, bounds) ==
    LET root_element == from_svg_data(svg_data)
    IN  IF root_element.ok
        THEN Ok([root_element |-> root_element.val, bounds |-> bounds])
        ELSE root_element

\* edge_length * (1. / 2^zoom): exact, the edge lengths of Layers being multiples of
\* 2^MaxZoom; for the zoom levels up to 30, where 2_i32.pow(coords.zoom) does not
\* overflow (bounds_for_tile_coords_pow)
bounds_for_tile_coords(self, coords) ==
    LET edge == edge_length(self.bounds) \div (2 ^ coords.zoom)
        top_left == VScale(edge, coords.location)
    IN  BoundingSquare_new(top_left, edge)

\* mutant of Layer_tile: the placeholder takes the box of the whole layer
Layer_tile_layer_box(self, coords) ==
    LET bounds == as_bounding_box(bounds_for_tile_coords(self, coords))
        view_box == as_view_box(bounds)
        found == select_with(self.root_element, bounds)
        svg == IF found.some THEN found.val ELSE empty_root(as_bounding_box(self.bounds))
        attributes ==
            delete_attr(
                delete_attr(set_attr(svg.attributes, "viewBox", [view_box |-> view_box]),
                            "height"),
                "width")
    IN  Tile_new([svg EXCEPT !.attributes = attributes])

Layer_tile(self, coords) ==
    LET bounds == as_bounding_box(bounds_for_tile_coords(self, coords))
        view_box == as_view_box(bounds)
        found == select_with(self.root_element, bounds)
        svg == IF found.some THEN found.val ELSE empty_root(bounds)
        attributes ==
            delete_attr(
                delete_attr(set_attr(svg.attributes, "viewBox", [view_box |-> view_box]),
                            "height"),
                "width")
    IN  Tile_new([svg EXCEPT !.attributes = attributes])

(***************************************************************************)
(* Inputs                                                                  *)
(***************************************************************************)
SeqsUpTo(S, n) == UNION { [1..k -> S] : k \in 0..n }

RawCommand(kind, position, parameters) ==
    [kind |-> kind, position |-> position, parameters |-> parameters]

\* one raw command of every kind; the x and y of every destination differ; the last
\* three have parameters after their last complete group
CommandAlphabet ==
    { RawCommand("Move", "Absolute", << 1, 2 >>),
      RawCommand("Move", "Relative", << 2, 1 >>),
      RawCommand("Line", "Absolute", << 3, 1 >>),
      RawCommand("Line", "Relative", << 1, 2, 2, 1 >>),
      RawCommand("HorizontalLine", "Absolute", << 4 >>),
      RawCommand("HorizontalLine", "Absolute", << 5, 6 >>),
      RawCommand("HorizontalLine", "Relative", << 1, 2 >>),
      RawCommand("VerticalLine", "Absolute", << 3, 5 >>),
      RawCommand("VerticalLine", "Relative", << 2 >>),
      RawCommand("Close", "Absolute", << >>),
      RawCommand("CubicCurve", "Relative", << 7, 7, 8, 8, 1, 3 >>),
      RawCommand("QuadraticCurve", "Absolute", << 7, 8, 2, 5 >>),
      RawCommand("SmoothCubicCurve", "Relative", << 7, 8, 3, 1 >>),
      RawCommand("SmoothQuadraticCurve", "Absolute", << 6, 4 >>),
      RawCommand("EllipticalArc", "Absolute", << 7, 7, 0, 0, 1, 6, 2 >>),
      RawCommand("Line", "Absolute", << 4, 2, 9 >>),
      RawCommand("CubicCurve", "Absolute", << 7, 7, 8, 8, 5, 3, 9, 9, 9, 9, 2, 6, 1 >>),
      RawCommand("Move", "Relative", << 3 >>) }

\* the path data of spec section 8
ExampleData ==
    << RawCommand("Move", "Absolute", << 0, 0 >>),
       RawCommand("Line", "Absolute", << 10, 0 >>),
       RawCommand("Line", "Relative", << 0, 10 >>),
       RawCommand("Close", "Absolute", << >>) >>

PathInputs == SeqsUpTo(CommandAlphabet, MaxCmds) \cup {ExampleData}

Boxes ==
    { BoundingBox_new(<< x, y >>, << w, h >>) :
        x \in 0..MaxCoord, y \in 0..MaxCoord, w \in 0..MaxSize, h \in 0..MaxSize }

Num(n) == [n |-> n, unit |-> ""]
NumUnit(n, unit) == [n |-> n, unit |-> unit]
RECURSIVE Joined(_, _)
\* the tokens of the numbers args with the tokens separator between them
Joined(args, separator) ==
    IF args = << >> THEN << >>
    ELSE IF Len(args) = 1 THEN << NumTok(args[1]) >>
    ELSE << NumTok(args[1]) >> \o separator \o Joined(Tail(args), separator)

TransformText(name, args, separator) ==
    [name |-> name, data_str |-> Joined(args, separator)]

\* name(a,b,..)
Transform(name, args) == TransformText(name, args, << Comma >>)

Rect(x, y, width, height) ==
    [ k \in {"x", "y", "width", "height"} |->
        CASE k = "x" -> Num(x) [] k = "y" -> Num(y)
          [] k = "width" -> Num(width) [] k = "height" -> Num(height) ]

Tag(name, type, attributes) ==
    [kind |-> "Tag", name |-> name, type |-> type, attributes |-> attributes]

Ignorable(kind) == [kind |-> kind]

EventAlphabet ==
    { Tag("g", "Start", NoAttributes),
      Tag("g", "Start", Rect(3, 2, 1, 1)),
      Tag("g", "Start", [k \in {"transform"} |-> Transform("translate", << 1, 2 >>)]),
      Tag("g", "Start", [k \in {"transform"} |-> Transform("scale", << 2 >>)]),
      Tag("rect", "Empty", Rect(0, 0, 2, 1)),
      Tag("rect", "Empty", set_attr(Rect(1, 1, 1, 1), "width", NumUnit(4, "mm"))),
      Tag("path", "Empty",
          [k \in {"d"} |-> [data |-> << RawCommand("Move", "Absolute", << 1, 2 >>),
                                        RawCommand("Line", "Absolute", << 3, 1 >>) >>]]),
      Tag("path", "Empty", NoAttributes),
      Tag("rect", "Empty", set_attr(Rect(0, 0, 1, 1), "x", NumUnit(1, "px"))),
      Tag("rect", "Empty",
          set_attr(Rect(1, 0, 1, 1), "transform", Transform("scale", << 2 >>))),
      Tag("g", "End", NoAttributes),
      Ignorable("Text") }

\* <g transform="translate(1,1)"><g transform="scale(2)">
\* <rect x="1" y="0" width="1" height="1"/></g></g>
TransformExample ==
    << Tag("g", "Start", [k \in {"transform"} |-> Transform("translate", << 1, 1 >>)]),
       Tag("g", "Start", [k \in {"transform"} |-> Transform("scale", << 2 >>)]),
       Tag("rect", "Empty", Rect(1, 0, 1, 1)),
       Tag("g", "End", NoAttributes),
       Tag("g", "End", NoAttributes) >>

\* <g><g transform="translate(1,2)"><rect .../></g><rect .../></g>
SiblingExample ==
    << Tag("g", "Start", NoAttributes),
       Tag("g", "Start", [k \in {"transform"} |-> Transform("translate", << 1, 2 >>)]),
       Tag("rect", "Empty", Rect(0, 0, 2, 1)),
       Tag("g", "End", NoAttributes),
       Tag("rect", "Empty", Rect(0, 0, 2, 1)),
       Tag("g", "End", NoAttributes) >>

\* <g x="0" y="0" width="2" height="2"><rect x="20" y="20" width="5" height="5"/></g>
ContainerExample ==
    << Tag("g", "Start", Rect(0, 0, 2, 2)),
       Tag("rect", "Empty", Rect(20, 20, 5, 5)),
       Tag("g", "End", NoAttributes) >>

\* <rect x="0" y="0" width="10" height="5"/>
RectangleExample == << Tag("rect", "Empty", Rect(0, 0, 10, 5)) >>

\* <g transform="translate(1,2)"><circle/></g>
CircleExample ==
    << Tag("g", "Start", [k \in {"transform"} |-> Transform("translate", << 1, 2 >>)]),
       Tag("circle", "Empty", NoAttributes),
       Tag("g", "End", NoAttributes) >>

\* <?xml version="1.0"?><!-- floor 1 --><rect x="0" y="0" width="2" height="1"/>
PrologExample ==
    << Ignorable("Declaration"), Ignorable("Comment"), Tag("rect", "Empty", Rect(0, 0, 2, 1)) >>

\* <g><rect .../><!-- c --><?i?>text<rect .../></g>
InterleavedExample ==
    << Tag("g", "Start", NoAttributes),
       Tag("rect", "Empty", Rect(0, 0, 2, 1)),
       Ignorable("Comment"), Ignorable("Instruction"), Ignorable("Text"),
       Tag("rect", "Empty", Rect(1, 1, 1, 1)),
       Tag("g", "End", NoAttributes) >>

\* <g transform="scale(2)"><rect x="1" y="1" width="10" height="5"/></g>
ScaledExample ==
    << Tag("g", "Start", [k \in {"transform"} |-> Transform("scale", << 2 >>)]),
       Tag("rect", "Empty", Rect(1, 1, 10, 5)),
       Tag("g", "End", NoAttributes) >>

\* <g><rect .../></svg><rect .../>
MismatchExample ==
    << Tag("g", "Start", NoAttributes),
       Tag("rect", "Empty", Rect(0, 0, 2, 1)),
       Tag("svg", "End", NoAttributes),
       Tag("rect", "Empty", Rect(1, 1, 1, 1)) >>

\* the markup of spec section 8 and of the claims
ExampleStreams ==
    { TransformExample, SiblingExample, ContainerExample, RectangleExample, CircleExample,
      PrologExample, InterleavedExample, ScaledExample, MismatchExample }

ParseInputs == SeqsUpTo(EventAlphabet, MaxEvents) \cup ExampleStreams

(***************************************************************************)
(* The variables of the components a specification leaves alone            *)
(***************************************************************************)
NoBox == BoundingBox_new(<< 0, 0 >>, << 0, 0 >>)

PathIdle == raw_commands = << >> /\ path = None /\ data_box = None
BoxIdle == box_a = NoBox /\ box_b = NoBox /\ hit = None
ParseIdle == events = << >> /\ parsed = None
SelectIdle ==
    /\ tree = empty_root(NoBox)
    /\ query = NoBox
    /\ selected = None
    /\ reselected = None
TilesIdle ==
    /\ layer = [root_element |-> empty_root(NoBox), bounds |-> BoundingSquare_new(<< 0, 0 >>, 0)]
    /\ min_zoom = 0
    /\ iter = [coords |-> None, max_zoom_level |-> 0]
    /\ yielded = << >>
    /\ nones = 0
    /\ tiles = << >>
    /\ previous = None
TransformIdle == transform_text = Transform("", << >>) /\ transformed = None
PolygonIdle ==
    /\ polygon = << >>
    /\ poly_area = None
    /\ poly_rotated = None
    /\ poly_reversed = None
    /\ poly_center = None
    /\ room = Room(<< >>, None)
    /\ compiled = None
MapIdle ==
    /\ map_input = Json(MapData(<< >>, << >>, << >>, << >>))
    /\ map_data = None
    /\ unique_floors = None
    /\ undefined_edges = None
ZoomIdle == wide_zoom = 0 /\ build = "debug" /\ coords_pow = None /\ bounds_pow = None
CompileIdle ==
    /\ uncompiled_map = MapData(<< >>, << >>, << >>, << >>)
    /\ image_files = << >>
    /\ compiled_map = None
RestIdle == TransformIdle /\ PolygonIdle /\ MapIdle /\ ZoomIdle /\ CompileIdle

(***************************************************************************)
(* SpecPath: Path::from and BoundingBox::from applied to path data         *)
(***************************************************************************)
InitPath ==
    /\ raw_commands \in PathInputs
    /\ path = None
    /\ data_box = None
    /\ BoxIdle /\ ParseIdle /\ SelectIdle /\ TilesIdle /\ RestIdle

Interpret ==
    /\ path = None
    /\ path' = Some(Path_from(raw_commands))
    /\ UNCHANGED << raw_commands, data_box, boxVars, parseVars, selectVars, tileVars,
                    transformVars, polygonVars, mapVars, zoomVars,
                    compileVars >>

\* BoundingBox::from(&Data) applied to the path data
Bound ==
    /\ data_box = None
    /\ data_box' = Some(BoundingBox_from(raw_commands))
    /\ UNCHANGED << raw_commands, path, boxVars, parseVars, selectVars, tileVars,
                    transformVars, polygonVars, mapVars, zoomVars,
                    compileVars >>

NextPath == Interpret \/ Bound

SpecPath == InitPath /\ [][NextPath]_vars

(***************************************************************************)
(* SpecBox: BoundingBox::intersects applied to two boxes                   *)
(***************************************************************************)
InitBox ==
    /\ box_a \in Boxes
    /\ box_b \in Boxes
    /\ hit = None
    /\ PathIdle /\ ParseIdle /\ SelectIdle /\ TilesIdle /\ RestIdle

Intersect ==
    /\ hit = None
    /\ hit' = Some(intersects(box_a, box_b))
    /\ UNCHANGED << box_a, box_b, pathVars, parseVars, selectVars, tileVars,
                    transformVars, polygonVars, mapVars, zoomVars,
                    compileVars >>

NextBox == Intersect

SpecBox == InitBox /\ [][NextBox]_vars

(***************************************************************************)
(* SpecParse: SvgElement::from_svg_data applied to an event stream         *)
(***************************************************************************)
InitParse ==
    /\ events \in ParseInputs
    /\ parsed = None
    /\ PathIdle /\ BoxIdle /\ SelectIdle /\ TilesIdle /\ RestIdle

Parse ==
    /\ parsed = None
    /\ parsed' = Some(from_svg_data(events))
    /\ UNCHANGED << events, pathVars, boxVars, selectVars, tileVars,
                    transformVars, polygonVars, mapVars, zoomVars,
                    compileVars >>

NextParse == Parse

SpecParse == InitParse /\ [][NextParse]_vars

(***************************************************************************)
(* SpecSelect: select_with applied to a built tree, and to its own result  *)
(***************************************************************************)
\* every tree from_svg_data builds from the event streams of ParseInputs
SelectTrees == { from_svg_data(e).val : e \in { i \in ParseInputs : from_svg_data(i).ok } }

QueryBoxes ==
    { BoundingBox_new(<< 0, 0 >>, << 1, 1 >>),
      BoundingBox_new(<< 3, 0 >>, << 1, 1 >>),
      BoundingBox_new(<< 0, 3 >>, << 1, 1 >>),
      BoundingBox_new(<< 3, 2 >>, << 1, 1 >>),
      BoundingBox_new(<< 0, 0 >>, << 8, 8 >>) }

InitSelect ==
    /\ tree \in SelectTrees
    /\ query \in QueryBoxes
    /\ selected = None
    /\ reselected = None
    /\ PathIdle /\ BoxIdle /\ ParseIdle /\ TilesIdle /\ RestIdle

Select ==
    /\ selected = None
    /\ selected' = Some(select_with(tree, query))
    /\ UNCHANGED << tree, query, reselected, pathVars, boxVars, parseVars, tileVars,
                    transformVars, polygonVars, mapVars, zoomVars,
                    compileVars >>

\* select_with called on the element the first call returned, with the same box
Reselect ==
    /\ selected.some
    /\ selected.val.some
    /\ reselected = None
    /\ reselected' = Some(select_with(selected.val.val, query))
    /\ UNCHANGED << tree, query, selected, pathVars, boxVars, parseVars, tileVars,
                    transformVars, polygonVars, mapVars, zoomVars,
                    compileVars >>

NextSelect == Select \/ Reselect

SpecSelect == InitSelect /\ [][NextSelect]_vars

(***************************************************************************)
(* SpecTiles: main's loop over TileIterator, and next() called on after    *)
(* the iterator has ended                                                  *)
(***************************************************************************)
\* <?xml ...?><svg id="floor" viewBox="0 0 8 8" width="8mm" height="8">
\* <rect x="5" y="5" width="2" height="2"/></svg>
DocSvg ==
    << Ignorable("Declaration"),
       Tag("svg", "Start",
           [k \in {"id", "viewBox", "width", "height"} |->
               CASE k = "id" -> [text |-> "floor"]
                 [] k = "viewBox" -> [view_box |-> << 0, 0, 8, 8 >>]
                 [] k = "width" -> NumUnit(8, "mm")
                 [] k = "height" -> Num(8)]),
       Tag("rect", "Empty", Rect(5, 5, 2, 2)),
       Tag("svg", "End", NoAttributes) >>

\* <g><rect x="0" y="0" width="1" height="1"/></g>
DocGroup ==
    << Tag("g", "Start", NoAttributes),
       Tag("rect", "Empty", Rect(0, 0, 1, 1)),
       Tag("g", "End", NoAttributes) >>

\* the layers main builds: --top-left-x/-y (0,0) or (4,2), --size 2 * 2^MaxZoom
Layers ==
    { Layer_new(d, BoundingSquare_new(p, 2 * 2 ^ MaxZoom)).val :
        d \in {DocSvg, DocGroup}, p \in {<< 0, 0 >>, << 4, 2 >>} }

\* main.rs hands TileIterator::new one argument, tile_iterator.rs declares it with
\* two: the zoom range handed to it is an input here, every pair within 0..MaxZoom
InitTiles ==
    /\ layer \in Layers
    /\ min_zoom \in 0..MaxZoom
    /\ \E max_zoom \in 0..MaxZoom : iter = TileIterator_new(min_zoom, max_zoom)
    /\ yielded = << >>
    /\ nones = 0
    /\ tiles = << >>
    /\ previous = None
    /\ PathIdle /\ BoxIdle /\ ParseIdle /\ SelectIdle /\ RestIdle

\* one turn of `for coords in TileIterator` in main: next(), then layer.tile(&coords)
MainIteration ==
    /\ nones = 0
    /\ LET r == TileIterator_next(iter)
       IN  /\ iter' = r.self
           /\ IF r.ret.some
              THEN /\ yielded' = Append(yielded, r.ret.val)
                   /\ tiles' = Append(tiles, [coords |-> r.ret.val,
                                              tile |-> Layer_tile(layer, r.ret.val)])
                   /\ nones' = nones
              ELSE /\ nones' = 1
                   /\ UNCHANGED << yielded, tiles >>
    /\ UNCHANGED << layer, min_zoom, previous, pathVars, boxVars, parseVars, selectVars,
                    transformVars, polygonVars, mapVars, zoomVars,
                    compileVars >>

\* a further call of next() on the iterator that has returned None
NextAgain ==
    /\ nones >= 1
    /\ nones < MaxNones
    /\ LET r == TileIterator_next(iter)
       IN  /\ iter' = r.self
           /\ yielded' = IF r.ret.some THEN Append(yielded, r.ret.val) ELSE yielded
           /\ nones' = IF r.ret.some THEN nones ELSE nones + 1
    /\ UNCHANGED << layer, min_zoom, tiles, previous, pathVars, boxVars, parseVars, selectVars,
                    transformVars, polygonVars, mapVars, zoomVars,
                    compileVars >>

\* TileIterator::new called again with the same arguments once the iterator has
\* ended, and main's loop run over the fresh iterator
Fresh ==
    /\ nones >= 1
    /\ previous = None
    /\ previous' = Some(yielded)
    /\ iter' = TileIterator_new(min_zoom, iter.max_zoom_level)
    /\ yielded' = << >>
    /\ nones' = 0
    /\ tiles' = << >>
    /\ UNCHANGED << layer, min_zoom, pathVars, boxVars, parseVars, selectVars,
                    transformVars, polygonVars, mapVars, zoomVars,
                    compileVars >>

NextTiles == MainIteration \/ NextAgain \/ Fresh

SpecTiles == InitTiles /\ [][NextTiles]_vars

\* main's `for` calls next() again as long as it has not returned None
SpecTilesLive == SpecTiles /\ WF_vars(MainIteration)

(***************************************************************************)
(* SpecTransform: parse_transform applied to the text of a transform       *)
(* attribute                                                               *)
(***************************************************************************)
GeometryIdle == PathIdle /\ BoxIdle /\ ParseIdle /\ SelectIdle /\ TilesIdle

\* angles that are multiples of 90 degrees, as factors and offsets too
ArgValues == {90, 180}

TransformNames == {"matrix", "translate", "rotate", "scale", "skewX"}

\* "a b", "a,b" and "a, b"
Separators == { << Space >>, << Comma >>, << Comma, Space >> }

TransformInputs ==
    { TransformText(name, args, separator) :
        name \in TransformNames, args \in SeqsUpTo(ArgValues, MaxArgs),
        separator \in Separators }

InitTransform ==
    /\ transform_text \in TransformInputs
    /\ transformed = None
    /\ GeometryIdle /\ PolygonIdle /\ MapIdle /\ ZoomIdle /\ CompileIdle

ParseTransform ==
    /\ transformed = None
    /\ transformed' = Some(parse_transform(transform_text))
    /\ UNCHANGED << transform_text, pathVars, boxVars, parseVars, selectVars, tileVars,
                    polygonVars, mapVars, zoomVars,
                    compileVars >>

NextTransform == ParseTransform

SpecTransform == InitTransform /\ [][NextTransform]_vars

(***************************************************************************)
(* SpecArea: shoelace_area applied to a vertex list, to its cyclic         *)
(* rotations and to its reversal                                           *)
(* SpecCentroid: shoelace_area, centroid and Room::compile applied to a    *)
(* vertex list                                                             *)
(***************************************************************************)
\* the corners of the square of spec section 8, and its middle
PointAlphabet == { << 0, 0 >>, << 0, 2 >>, << 2, 2 >>, << 2, 0 >>, << 1, 1 >> }

Polygons == SeqsUpTo(PointAlphabet, MaxPoints)

\* a room without a preset center, and one with the center (1, 1)
Rooms == { Room(<< >>, None), Room(<< >>, Some(<< F32(1), F32(1) >>)) }

\* the list that starts k points later
RotatedBy(list, k) == SubSeq(list, k + 1, Len(list)) \o SubSeq(list, 1, k)

Reversed(list) == [ i \in DOMAIN list |-> list[Len(list) + 1 - i] ]

InitPolygon ==
    /\ polygon \in Polygons
    /\ poly_area = None
    /\ poly_rotated = None
    /\ poly_reversed = None
    /\ poly_center = None
    /\ room = Room(<< >>, None)
    /\ compiled = None
    /\ GeometryIdle /\ TransformIdle /\ MapIdle /\ ZoomIdle /\ CompileIdle

ShoelaceArea ==
    /\ poly_area = None
    /\ poly_area' = Some(shoelace_area(polygon))
    /\ UNCHANGED << polygon, poly_rotated, poly_reversed, poly_center, room, compiled,
                    pathVars, boxVars, parseVars, selectVars, tileVars, transformVars,
                    mapVars, zoomVars,
                    compileVars >>

\* shoelace_area of the list rotated by k, once that of the list itself is known
ShoelaceAreaRotated ==
    /\ poly_area # None
    /\ poly_rotated = None
    /\ \E k \in 1..(Len(polygon) - 1) :
          poly_rotated' = Some([by |-> k, area |-> shoelace_area(RotatedBy(polygon, k))])
    /\ UNCHANGED << polygon, poly_area, poly_reversed, poly_center, room, compiled,
                    pathVars, boxVars, parseVars, selectVars, tileVars, transformVars,
                    mapVars, zoomVars,
                    compileVars >>

\* shoelace_area of the reversed list, once that of the list itself is known
ShoelaceAreaReversed ==
    /\ poly_area # None
    /\ poly_reversed = None
    /\ poly_reversed' = Some(shoelace_area(Reversed(polygon)))
    /\ UNCHANGED << polygon, poly_area, poly_rotated, poly_center, room, compiled,
                    pathVars, boxVars, parseVars, selectVars, tileVars, transformVars,
                    mapVars, zoomVars,
                    compileVars >>

Centroid ==
    /\ poly_center = None
    /\ poly_center' = Some(centroid(polygon))
    /\ UNCHANGED << polygon, poly_area, poly_rotated, poly_reversed, room, compiled,
                    pathVars, boxVars, parseVars, selectVars, tileVars, transformVars,
                    mapVars, zoomVars,
                    compileVars >>

\* uncompiled_room.compile(outline) of MapData::compile
Compile ==
    /\ compiled = None
    /\ \E uncompiled_room \in Rooms :
          /\ room' = uncompiled_room
          /\ compiled' = Some(Room_compile(uncompiled_room, polygon))
    /\ UNCHANGED << polygon, poly_area, poly_rotated, poly_reversed, poly_center,
                    pathVars, boxVars, parseVars, selectVars, tileVars, transformVars,
                    mapVars, zoomVars,
                    compileVars >>

NextArea == ShoelaceArea \/ ShoelaceAreaRotated \/ ShoelaceAreaReversed

SpecArea == InitPolygon /\ [][NextArea]_vars

NextCentroid == ShoelaceArea \/ Centroid \/ Compile

SpecCentroid == InitPolygon /\ [][NextCentroid]_vars

(***************************************************************************)
(* SpecMap: MapData::new applied to a JSON text, unique applied to its     *)
(* floor numbers and undefined to the vertex ids of its edges              *)
(***************************************************************************)
FloorNumbers == {"1", "2"}

\* the maps from ids among a, b to vertices, in every order of iteration
VertexMaps ==
    { << >> }
    \cup { << Vertex(id, f) >> : id \in {"a", "b"}, f \in FloorNumbers }
    \cup { << Vertex("a", f), Vertex("b", g) >> : f \in FloorNumbers, g \in FloorNumbers }
    \cup { << Vertex("b", f), Vertex("a", g) >> : f \in FloorNumbers, g \in FloorNumbers }

\* the sets of ids among a, c a room lists, in every order of iteration
RoomVertexSets == { << >>, << "a" >>, << "c" >>, << "a", "c" >>, << "c", "a" >> }

RoomMaps ==
    { << >> }
    \cup { << Room(v, None) >> : v \in RoomVertexSets }
    \cup { << Room(<< "a" >>, None), Room(<< "c" >>, None) >>,
           << Room(<< "c" >>, None), Room(<< "a" >>, None) >> }

EdgeLists ==
    { << >> }
    \cup { << Edge(from, to) >> : from \in {"a", "c"}, to \in {"a", "c"} }
    \cup { << Edge("a", "a"), Edge("c", "b") >> }

MapInputs ==
    { NoJson }
    \cup { Json(MapData([ i \in DOMAIN numbers |-> Floor(numbers[i]) ], v, e, r)) :
             numbers \in SeqsUpTo(FloorNumbers, MaxFloors),
             v \in VertexMaps, e \in EdgeLists, r \in RoomMaps }

InitMap ==
    /\ map_input \in MapInputs
    /\ map_data = None
    /\ unique_floors = None
    /\ undefined_edges = None
    /\ GeometryIdle /\ TransformIdle /\ PolygonIdle /\ ZoomIdle /\ CompileIdle

New ==
    /\ map_data = None
    /\ map_data' = Some(MapData_new(map_input))
    /\ UNCHANGED << map_input, unique_floors, undefined_edges, pathVars, boxVars,
                    parseVars, selectVars, tileVars, transformVars, polygonVars, zoomVars,
                    compileVars >>

\* unique(self.floors.iter().map(|f| &f.number)) of verify
UniqueFloors ==
    /\ map_input.parses
    /\ unique_floors = None
    /\ unique_floors' = Some(unique(floor_numbers_of(map_input.value)))
    /\ UNCHANGED << map_input, map_data, undefined_edges, pathVars, boxVars,
                    parseVars, selectVars, tileVars, transformVars, polygonVars, zoomVars,
                    compileVars >>

\* undefined(edge_vertex_ids, &self.vertices.keys().collect()) of verify
UndefinedEdges ==
    /\ map_input.parses
    /\ undefined_edges = None
    /\ undefined_edges' = Some(undefined(edge_vertex_ids(map_input.value.edges),
                                          vertex_keys(map_input.value)))
    /\ UNCHANGED << map_input, map_data, unique_floors, pathVars, boxVars,
                    parseVars, selectVars, tileVars, transformVars, polygonVars, zoomVars,
                    compileVars >>

NextMap == New \/ UniqueFloors \/ UndefinedEdges

SpecMap == InitMap /\ [][NextMap]_vars

(***************************************************************************)
(* SpecZoom: 2^zoom as max_coords_for_zoom_level and bounds_for_tile_coords *)
(* compute it, for every zoom level --zoom-level can name up to MaxWideZoom *)
(***************************************************************************)
Builds == {"debug", "release"}

InitZoom ==
    /\ wide_zoom \in 0..MaxWideZoom
    /\ build \in Builds
    /\ coords_pow = None
    /\ bounds_pow = None
    /\ GeometryIdle /\ TransformIdle /\ PolygonIdle /\ MapIdle /\ CompileIdle

\* Self::max_coords_for_zoom_level(coords.zoom) of next()
MaxCoords ==
    /\ coords_pow = None
    /\ coords_pow' = Some(max_coords_for_zoom_level_u32(wide_zoom, build))
    /\ UNCHANGED << wide_zoom, build, bounds_pow, pathVars, boxVars, parseVars, selectVars,
                    tileVars, transformVars, polygonVars, mapVars, compileVars >>

\* 2_i32.pow(coords.zoom) of bounds_for_tile_coords
BoundsPow ==
    /\ bounds_pow = None
    /\ bounds_pow' = Some(bounds_for_tile_coords_pow(wide_zoom, build))
    /\ UNCHANGED << wide_zoom, build, coords_pow, pathVars, boxVars, parseVars, selectVars,
                    tileVars, transformVars, polygonVars, mapVars, compileVars >>

NextZoom == MaxCoords \/ BoundsPow

SpecZoom == InitZoom /\ [][NextZoom]_vars

(***************************************************************************)
(* SpecCompile: MapData::compile applied to a MapData and the image files  *)
(* of its floors                                                           *)
(***************************************************************************)
\* the text of an id attribute: prefix followed by rest
Id(prefix, rest) == [prefix |-> prefix, rest |-> rest]

\* <rect id="room<number>" x= y= width= height=/>
RoomRect(number, x, y, width, height) ==
    Tag("rect", "Empty", set_attr(Rect(x, y, width, height), "id", Id("room", number)))

\* <path id="room<number>" d=.../>
RoomPath(number, data) ==
    Tag("path", "Empty",
        [ k \in {"id", "d"} |-> IF k = "id" THEN Id("room", number) ELSE [data |-> data] ])

\* M 0 0 L 2 2 l -2 0: a triangle whose outline compile reads clockwise
TriangleData ==
    << RawCommand("Move", "Absolute", << 0, 0 >>),
       RawCommand("Line", "Absolute", << 2, 2 >>),
       RawCommand("Line", "Relative", << 0 - 2, 0 >>) >>

\* two shapes of room 101, a path of room 102, a shape of a room no map declares, and
\* a rect that is no room
ShapeAlphabet ==
    { RoomRect("101", 0, 0, 2, 2),
      RoomRect("101", 1, 1, 3, 1),
      RoomPath("102", TriangleData),
      RoomRect("999", 0, 0, 1, 1),
      Tag("rect", "Empty", set_attr(Rect(0, 0, 4, 4), "id", Id("wall", "7"))) }

\* a floor image whose first four events are no room: a comment, a group named as a
\* room, a rect whose width has a unit and a path whose d does not parse; then rooms
\* 102 and 101
SkippedExample ==
    << Ignorable("Comment"),
       Tag("g", "Start", [ k \in {"id"} |-> Id("room", "101") ]),
       Tag("rect", "Empty",
           set_attr(set_attr(Rect(0, 0, 1, 1), "width", NumUnit(2, "px")),
                    "id", Id("room", "101"))),
       Tag("path", "Empty",
           [ k \in {"id", "d"} |-> IF k = "id" THEN Id("room", "102") ELSE [text |-> "z"] ]),
       RoomRect("102", 0, 0, 1, 3),
       RoomRect("101", 2, 0, 1, 1),
       Tag("g", "End", NoAttributes) >>

Documents == SeqsUpTo(ShapeAlphabet, MaxShapes) \cup {SkippedExample}

\* the image of the second floor: empty, a room of its own, or rooms the first
\* floor may draw too
SecondDocuments ==
    { << >>,
      << RoomRect("103", 0, 0, 2, 1) >>,
      << RoomRect("101", 0, 0, 1, 1), RoomRect("102", 0, 0, 3, 3) >> }

ImagePaths == {"1.svg", "2.svg", "3.svg"}

\* 3.svg is the file that does not exist
FileSystems ==
    { [ k \in ImagePaths |->
          CASE k = "1.svg" -> Some(first) [] k = "2.svg" -> Some(second) [] OTHER -> None ] :
        first \in Documents, second \in SecondDocuments }

CompileFloors ==
    { FloorImage("1", "1.svg", << 0, 0 >>),
      FloorImage("2", "2.svg", << 1, 2 >>),
      FloorImage("3", "3.svg", << 0, 0 >>) }

\* the rooms a map declares: none; 101 and 102, 102 with a preset center; 101 with a
\* preset center, 103 and 104
RoomDeclarations ==
    { << >>,
      [ k \in {"101", "102"} |->
          IF k = "101" THEN Room(<< "a" >>, None)
          ELSE Room(<< >>, Some(<< F32(1), F32(1) >>)) ],
      [ k \in {"101", "103", "104"} |->
          IF k = "101" THEN Room(<< >>, Some(<< F32(5), F32(5) >>))
          ELSE Room(<< "a" >>, None) ] }

\* MapData's fields are public: compile is handed any MapData
CompileInputs ==
    { MapData(floors, << Vertex("a", "1") >>, << Edge("a", "a") >>, rooms) :
        floors \in SeqsUpTo(CompileFloors, MaxFloors), rooms \in RoomDeclarations }

InitCompile ==
    /\ uncompiled_map \in CompileInputs
    /\ image_files \in FileSystems
    /\ compiled_map = None
    /\ GeometryIdle /\ TransformIdle /\ PolygonIdle /\ MapIdle /\ ZoomIdle

\* map_data.compile(base_path)
CompileMap ==
    /\ compiled_map = None
    /\ compiled_map' = Some(MapData_compile(uncompiled_map, image_files))
    /\ UNCHANGED << uncompiled_map, image_files, pathVars, boxVars, parseVars,
                    selectVars, tileVars, transformVars, polygonVars, mapVars, zoomVars >>

NextCompile == CompileMap

SpecCompile == InitCompile /\ [][NextCompile]_vars

(***************************************************************************)
(* Claims about the tile enumerator and the pyramid driver (SpecTiles)     *)
(***************************************************************************)
\* the coordinates of one zoom level in row-major order, by index arithmetic
LevelCoords(z) ==
    [ i \in 1..(4 ^ z) |-> TileCoords_new(<< (i - 1) % (2 ^ z), (i - 1) \div (2 ^ z) >>, z) ]

RECURSIVE ExpectedCoords(_, _)
ExpectedCoords(z, max_zoom) ==
    IF z > max_zoom THEN << >>
    ELSE LevelCoords(z) \o ExpectedCoords(z + 1, max_zoom)

IsPrefix(a, b) == Len(a) <= Len(b) /\ a = SubSeq(b, 1, Len(a))

YieldsInOrder(expected) ==
    /\ IsPrefix(yielded, expected)
    /\ nones > 0 => yielded = expected
    /\ nones = 0 =>
         iter.coords = IF Len(yielded) < Len(expected)
                       THEN Some(expected[Len(yielded) + 1]) ELSE None

\* C1: for min_zoom <= max_zoom the calls of next() return, in this order, the
\* coordinates of every zoom level from min_zoom to max_zoom, each level row by row
\* with the column changing fastest, and nothing after the last tile of max_zoom;
\* the range 0..=2 gives 21 coordinates, each once.
ClaimC1 ==
    min_zoom <= iter.max_zoom_level =>
        /\ YieldsInOrder(ExpectedCoords(min_zoom, iter.max_zoom_level))
        /\ (min_zoom = 0 /\ iter.max_zoom_level = 2 /\ nones > 0) =>
              (Len(yielded) = 21 /\ Cardinality(Range(yielded)) = 21)

WitnessC1 ==
    /\ min_zoom = 0
    /\ iter.max_zoom_level = 2
    /\ nones = MaxNones
    /\ Len(yielded) = 21
    /\ yielded[2] = TileCoords_new(<< 0, 0 >>, 1)
    /\ yielded[3] = TileCoords_new(<< 1, 0 >>, 1)
    /\ yielded[4] = TileCoords_new(<< 0, 1 >>, 1)

CoordsInRange(c) ==
    /\ min_zoom <= c.zoom
    /\ c.zoom <= iter.max_zoom_level
    /\ c.location[1] \in 0..(2 ^ c.zoom - 1)
    /\ c.location[2] \in 0..(2 ^ c.zoom - 1)

\* C2: the coordinate the enumerator holds, and every coordinate it has yielded, has
\* min_zoom <= zoom <= max_zoom and column and row within 0..2^zoom - 1.
ClaimC2 ==
    /\ iter.coords.some => CoordsInRange(iter.coords.val)
    /\ \A i \in DOMAIN yielded : CoordsInRange(yielded[i])

TileBox(c) == as_bounding_box(bounds_for_tile_coords(layer, c))

IsSelectionOrPlaceholder(image, found, tile_box) ==
    IF found.some
    THEN /\ image.tag_name = found.val.tag_name
         /\ image.children = found.val.children
         /\ image.bounding_box = found.val.bounding_box
    ELSE /\ image.tag_name = "svg"
         /\ image.children = << >>
         /\ image.bounding_box = tile_box

\* C3: main's loop has produced one tile for every coordinate the enumerator has
\* yielded, in the same order; the tile is the element select_with returned for the
\* tile's box when it returned one, and otherwise the empty root (tag svg, no
\* children) with the tile's box as its bounding box.
ClaimC3 ==
    /\ Len(tiles) = Len(yielded)
    /\ \A i \in DOMAIN tiles :
          /\ tiles[i].coords = yielded[i]
          /\ IsSelectionOrPlaceholder(tiles[i].tile.image,
                                      select_with(layer.root_element, TileBox(yielded[i])),
                                      TileBox(yielded[i]))

WitnessC3 ==
    /\ nones > 0
    /\ \E i \in DOMAIN tiles : select_with(layer.root_element, TileBox(yielded[i])).some
    /\ \E i \in DOMAIN tiles :
          /\ ~select_with(layer.root_element, TileBox(yielded[i])).some
          /\ tiles[i].tile.image.tag_name = "svg"
          /\ tiles[i].coords.zoom > 0

\* C4: with the layer's square at top-left P and edge length L, the square computed
\* for (zoom z, column c, row r) has edge length L / 2^z and top-left
\* P + (L / 2^z) * (c, r).
ClaimC4 ==
    \A i \in DOMAIN yielded :
        bounds_for_tile_coords(layer, yielded[i]) =
            BoundingSquare_new(
                VAdd(layer.bounds.top_left,
                     VScale(layer.bounds.size \div (2 ^ yielded[i].zoom), yielded[i].location)),
                layer.bounds.size \div (2 ^ yielded[i].zoom))

RECURSIVE SumOfPowersOf4(_, _)
\* 4^lo + .. + 4^hi
SumOfPowersOf4(lo, hi) == IF lo > hi THEN 0 ELSE 4 ^ lo + SumOfPowersOf4(lo + 1, hi)

\* the calls of next() so far: every call has yielded a coordinate or returned None
Calls == Len(yielded) + nones

TerminatesAfter(n) ==
    /\ Len(yielded) <= n
    /\ Calls <= n => (nones = 0 /\ (iter.coords.some <=> Calls < n))
    /\ Calls > n => (Len(yielded) = n /\ ~iter.coords.some)

RestartsIdentically ==
    previous.some =>
        /\ IsPrefix(yielded, previous.val)
        /\ nones >= 1 => yielded = previous.val
        /\ yielded # << >> => yielded[1] = TileCoords_new(<< 0, 0 >>, min_zoom)

\* C16: for min_zoom <= max_zoom, the first 4^min_zoom + .. + 4^max_zoom calls of
\* next() return a coordinate, the call after them returns None and so does every
\* later call; main's loop reaches that None; a fresh TileIterator::new with the
\* same arguments yields the same sequence again, from (min_zoom, 0, 0).
ClaimC16 ==
    /\ [](min_zoom <= iter.max_zoom_level =>
            /\ TerminatesAfter(SumOfPowersOf4(min_zoom, iter.max_zoom_level))
            /\ RestartsIdentically)
    /\ (min_zoom <= iter.max_zoom_level /\ nones = 0) ~> (nones >= 1)

\* the fresh iterator over 0..=2 has ended too, after the same 21 coordinates
WitnessC16 ==
    /\ min_zoom = 0
    /\ iter.max_zoom_level = 2
    /\ previous.some
    /\ nones = MaxNones
    /\ Len(yielded) = 21
    /\ yielded = previous.val

\* the attributes of the element Layer::tile starts from: those of the root when
\* select_with returns it, none for the placeholder
SelectedAttributes(c) ==
    IF select_with(layer.root_element, TileBox(c)).some
    THEN layer.root_element.attributes
    ELSE NoAttributes

\* the four numbers of "<x> <y> <width> <height>"
ViewBoxOf(bounding_box) ==
    [view_box |-> << bounding_box.top_left[1], bounding_box.top_left[2],
                     bounding_box.size[1], bounding_box.size[2] >>]

\* C14: the element of every tile has a viewBox attribute that is "<x> <y> <width>
\* <height>" of the tile's box, has no width and no height attribute, and has every
\* other attribute of the selected root, unchanged, and no further one.
ClaimC14 ==
    \A i \in DOMAIN tiles :
        /\ DOMAIN tiles[i].tile.image.attributes =
              (DOMAIN SelectedAttributes(yielded[i]) \ {"width", "height"}) \cup {"viewBox"}
        /\ tiles[i].tile.image.attributes["viewBox"] = ViewBoxOf(TileBox(yielded[i]))
        /\ \A k \in DOMAIN SelectedAttributes(yielded[i]) \ {"width", "height", "viewBox"} :
              tiles[i].tile.image.attributes[k] = SelectedAttributes(yielded[i])[k]

\* a tile of the svg root, which carries id, viewBox, width and height, whose box is
\* not the one of the root's own viewBox
WitnessC14 ==
    \E i \in DOMAIN tiles :
        /\ DOMAIN SelectedAttributes(yielded[i]) = {"id", "viewBox", "width", "height"}
        /\ DOMAIN tiles[i].tile.image.attributes = {"id", "viewBox"}
        /\ tiles[i].tile.image.attributes["viewBox"] = [view_box |-> << 4, 4, 4, 4 >>]

(***************************************************************************)
(* Claims about the spatial selector (SpecSelect)                          *)
(***************************************************************************)
RECURSIVE NodeAt(_, _)
\* the node of t at the path p of child indices
NodeAt(t, p) == IF p = << >> THEN t ELSE NodeAt(t.children[Head(p)], Tail(p))

RECURSIVE PreorderFrom(_, _, _)
\* the paths of the node at p and, from its i-th child on, of its descendants
PreorderFrom(t, p, i) ==
    IF i = 0 THEN << p >> \o PreorderFrom(t, p, 1)
    ELSE IF i > Len(NodeAt(t, p).children) THEN << >>
    ELSE PreorderFrom(t, Append(p, i), 0) \o PreorderFrom(t, p, i + 1)

Preorder(t) == PreorderFrom(t, << >>, 0)

\* what select_with is to keep of a node: its depth, tag, attributes and box
NodeEntry(t, p) ==
    [depth |-> Len(p),
     tag_name |-> NodeAt(t, p).tag_name,
     attributes |-> NodeAt(t, p).attributes,
     bounding_box |-> NodeAt(t, p).bounding_box]

Entries(t, paths) == [ i \in DOMAIN paths |-> NodeEntry(t, paths[i]) ]

\* the node at p and all its ancestors intersect q
IntersectsDownTo(t, q, p) ==
    \A k \in 0..Len(p) : intersects(NodeAt(t, SubSeq(p, 1, k)).bounding_box, q)

KeptPaths(t, q) == SelectSeq(Preorder(t), LAMBDA p : IntersectsDownTo(t, q, p))

\* C5: select_with returns None exactly when the node's box does not intersect the
\* query; otherwise the result holds, with unchanged tag, attributes and box and in
\* the original order, exactly the nodes that intersect the query together with all
\* their ancestors.
ClaimC5 ==
    selected.some =>
        /\ selected.val.some <=> intersects(tree.bounding_box, query)
        /\ selected.val.some =>
              Entries(selected.val.val, Preorder(selected.val.val))
                  = Entries(tree, KeptPaths(tree, query))

\* a root that is returned without children although it has some, one of which
\* has a box that intersects the query no less than the root's
WitnessC5 ==
    /\ selected.some
    /\ selected.val.some
    /\ tree.children # << >>
    /\ selected.val.val.children = << >>

\* a grandchild that intersects the query is dropped with its parent, which does not
WitnessC5Ancestor ==
    /\ selected.some
    /\ selected.val.some
    /\ \E p \in Range(Preorder(tree)) :
          /\ Len(p) = 2
          /\ intersects(NodeAt(tree, p).bounding_box, query)
          /\ ~IntersectsDownTo(tree, query, p)

\* C8: select_with applied to its own result with the same query returns that result
\* again, node for node.
ClaimC8 ==
    reselected.some => reselected.val = selected.val

WitnessC8 ==
    /\ reselected.some
    /\ reselected.val.some
    /\ Len(reselected.val.val.children) >= 1
    /\ Len(Preorder(reselected.val.val)) < Len(Preorder(tree))

(***************************************************************************)
(* Claims about BoundingBox::intersects (SpecBox)                          *)
(***************************************************************************)
Covers(b, p) ==
    /\ b.top_left[1] <= p[1] /\ p[1] <= b.top_left[1] + b.size[1]
    /\ b.top_left[2] <= p[2] /\ p[2] <= b.top_left[2] + b.size[2]

\* the closed rectangles a and b have a point in common (with integer corners, an
\* integer one)
SharePoint(a, b) ==
    \E x \in 0..(MaxCoord + MaxSize), y \in 0..(MaxCoord + MaxSize) :
        Covers(a, << x, y >>) /\ Covers(b, << x, y >>)

\* C7: intersects is symmetric, and it is false only for boxes that have no point in
\* common, edges and corners included.
ClaimC7 ==
    hit.some =>
        /\ hit.val = intersects(box_b, box_a)
        /\ hit.val = SharePoint(box_a, box_b)

\* two boxes that share one corner only
WitnessC7 ==
    /\ hit.some
    /\ hit.val
    /\ box_a = BoundingBox_new(<< 0, 0 >>, << 1, 1 >>)
    /\ box_b = BoundingBox_new(<< 1, 1 >>, << 1, 1 >>)

(***************************************************************************)
(* Claims about the scene tree builder (SpecParse)                         *)
(***************************************************************************)
Contains(outer, inner) ==
    /\ outer.top_left[1] <= inner.top_left[1]
    /\ outer.top_left[2] <= inner.top_left[2]
    /\ inner.top_left[1] + inner.size[1] <= outer.top_left[1] + outer.size[1]
    /\ inner.top_left[2] + inner.size[2] <= outer.top_left[2] + outer.size[2]

\* the element's own rectangle: its global top-left and the size of its attributes
IntrinsicBox(element) ==
    BoundingBox_new(element.bounding_box.top_left,
                    local_geometry(element.tag_name, element.attributes).val[1])

\* the paths q of t that go through p and on
Below(t, p) ==
    { q \in Range(Preorder(t)) : Len(q) > Len(p) /\ SubSeq(q, 1, Len(p)) = p }

\* C6: in a tree from_svg_data returns, the bounding box of every element contains
\* the element's own rectangle and the bounding box of every descendant.
ClaimC6 ==
    (parsed.some /\ parsed.val.ok) =>
        \A p \in Range(Preorder(parsed.val.val)) :
            /\ Contains(NodeAt(parsed.val.val, p).bounding_box,
                        IntrinsicBox(NodeAt(parsed.val.val, p)))
            /\ \A q \in Below(parsed.val.val, p) :
                  Contains(NodeAt(parsed.val.val, p).bounding_box,
                           NodeAt(parsed.val.val, q).bounding_box)

IsTag(event, types) == event.kind = "Tag" /\ event.type \in types

PathWithoutData(event) ==
    IsTag(event, {"Start", "Empty"}) /\ event.name = "path" /\ "d" \notin DOMAIN event.attributes

\* an x, y, width or height attribute that is not a number, alone or followed by mm
UnparsableNumber(event) ==
    /\ IsTag(event, {"Start", "Empty"})
    /\ event.name # "path"
    /\ \E k \in {"x", "y", "width", "height"} \cap DOMAIN event.attributes :
          event.attributes[k].unit \notin {"", "mm"}

\* open tags minus close tags among the first i events
Depth(stream, i) ==
    Cardinality({ j \in 1..i : IsTag(stream[j], {"Start"}) })
        - Cardinality({ j \in 1..i : IsTag(stream[j], {"End"}) })

\* the i-th event lies inside the element the first event opens, and no event before
\* it is one of the errors
Reached(stream, i) ==
    \/ i = 1
    \/ /\ IsTag(stream[1], {"Start"})
       /\ \A j \in 1..(i - 1) :
             /\ Depth(stream, j) >= 1
             /\ ~PathWithoutData(stream[j])
             /\ ~UnparsableNumber(stream[j])

\* the first event opens an element that no close tag ends
Unclosed(stream) ==
    /\ stream # << >>
    /\ IsTag(stream[1], {"Start"})
    /\ \A i \in DOMAIN stream : Depth(stream, i) >= 1

\* C13: from_svg_data returns an error for an empty event stream, for a close tag
\* where an element was expected, for a path element without path data, for an
\* unparsable numeric x/y/width/height attribute, and for a stream whose open tag has
\* no matching close tag.
ClaimC13 ==
    parsed.some =>
        /\ events = << >> => ~parsed.val.ok
        /\ (events # << >> /\ IsTag(events[1], {"End"})) => ~parsed.val.ok
        /\ \A i \in DOMAIN events :
              (Reached(events, i) /\ PathWithoutData(events[i])) => ~parsed.val.ok
        /\ \A i \in DOMAIN events :
              (Reached(events, i) /\ UnparsableNumber(events[i])) => ~parsed.val.ok
        /\ Unclosed(events) => ~parsed.val.ok

(***************************************************************************)
(* Claims about the path interpreter (SpecPath)                            *)
(***************************************************************************)
GroupSize(kind) ==
    CASE kind \in {"HorizontalLine", "VerticalLine"} -> 1
      [] kind \in {"Move", "Line", "SmoothQuadraticCurve"} -> 2
      [] kind \in {"QuadraticCurve", "SmoothCubicCurve"} -> 4
      [] kind = "CubicCurve" -> 6
      [] kind = "EllipticalArc" -> 7

\* the complete parameter groups of one raw command, each with its kind and position
GroupsOf(command) ==
    IF command.kind = "Close" THEN << >>
    ELSE [ i \in 1..(Len(command.parameters) \div GroupSize(command.kind)) |->
            [kind |-> command.kind,
             position |-> command.position,
             values |-> SubSeq(command.parameters,
                               (i - 1) * GroupSize(command.kind) + 1,
                               i * GroupSize(command.kind))] ]

RECURSIVE AllGroups(_)
AllGroups(raw) == IF raw = << >> THEN << >> ELSE GroupsOf(Head(raw)) \o AllGroups(Tail(raw))

\* the point emitted before the k-th, the origin before the first
Running(points, k) == IF k = 1 THEN << 0, 0 >> ELSE points[k - 1]

\* what a group says about its destination: one value of a line, else the last two
Given(group) ==
    CASE group.kind = "HorizontalLine" -> << group.values[1], 0 >>
      [] group.kind = "VerticalLine" -> << 0, group.values[1] >>
      [] OTHER -> << group.values[Len(group.values) - 1], group.values[Len(group.values)] >>

LinePoint(group, running) ==
    CASE group.position = "Relative" -> VAdd(running, Given(group))
      [] group.kind = "HorizontalLine" -> << group.values[1], running[2] >>
      [] group.kind = "VerticalLine" -> << running[1], group.values[1] >>

\* C9: an Absolute HorizontalLine parameter x yields (x, y of the running point), an
\* Absolute VerticalLine parameter y yields (x of the running point, y), and the
\* Relative forms yield the running point displaced by (dx, 0) and by (0, dy).
ClaimC9 ==
    path.some =>
        /\ Len(path.val) = Len(AllGroups(raw_commands))
        /\ \A k \in DOMAIN path.val :
              AllGroups(raw_commands)[k].kind \in {"HorizontalLine", "VerticalLine"} =>
                  path.val[k] = LinePoint(AllGroups(raw_commands)[k], Running(path.val, k))

\* C10: every Relative point is its offset added to the point emitted last before
\* it (the origin before the first point), within one raw command and across raw
\* commands, Close included; the path data of the example yields (0,0), (10,0),
\* (10,10).
ClaimC10 ==
    path.some =>
        /\ Len(path.val) = Len(AllGroups(raw_commands))
        /\ \A k \in DOMAIN path.val :
              AllGroups(raw_commands)[k].position = "Relative" =>
                  path.val[k] = VAdd(Running(path.val, k), Given(AllGroups(raw_commands)[k]))
        /\ raw_commands = ExampleData =>
              path.val = << << 0, 0 >>, << 10, 0 >>, << 10, 10 >> >>

\* M 1 2  Z  l 1 2 2 1: two Relative groups after a Close, read from (1,2) and (2,4)
WitnessC10 ==
    /\ path.some
    /\ raw_commands = << RawCommand("Move", "Absolute", << 1, 2 >>),
                         RawCommand("Close", "Absolute", << >>),
                         RawCommand("Line", "Relative", << 1, 2, 2, 1 >>) >>
    /\ path.val = << << 1, 2 >>, << 2, 4 >>, << 4, 5 >> >>

(***************************************************************************)
(* Claims about the transform parser (SpecTransform)                       *)
(***************************************************************************)
\* the numbers written between the parentheses, in order
Numbers(data_str) ==
    LET nums == SelectSeq(data_str, LAMBDA t : t.tok = "num")
    IN  [ i \in DOMAIN nums |-> nums[i].n ]

\* the text is numbers with one space or one comma between each two
SingleSeparated(data_str) ==
    /\ Len(data_str) % 2 = 1
    /\ \A i \in DOMAIN data_str : (data_str[i].tok = "num") <=> (i % 2 = 1)

\* the text is numbers with nothing but spaces around and between them
SpaceSeparated(data_str) ==
    /\ \A i \in DOMAIN data_str : data_str[i] # Comma
    /\ \A i \in DOMAIN data_str \ {1} :
          ~(data_str[i].tok = "num" /\ data_str[i - 1].tok = "num")

\* the text is a list of arguments as the function named name takes it apart
IsArgumentList(name, data_str) ==
    IF name = "matrix" THEN SpaceSeparated(data_str) ELSE SingleSeparated(data_str)

AcceptedCounts(name) ==
    CASE name = "matrix" -> {6}
      [] name = "translate" -> {1, 2}
      [] name = "rotate" -> {1, 3}
      [] name = "scale" -> {1, 2}

\* the transform of an accepted argument list n
TransformOf(name, n) ==
    CASE name = "matrix" -> << << n[1], n[3], n[5] >>, << n[2], n[4], n[6] >>, << 0, 0, 1 >> >>
      [] name = "translate" -> translate(<< n[1], IF Len(n) = 2 THEN n[2] ELSE 0 >>)
      [] name = "rotate" ->
            IF Len(n) = 1 THEN rotate_deg(n[1]) ELSE rotate_deg_about(n[1], << n[2], n[3] >>)
      [] name = "scale" -> scale(<< n[1], IF Len(n) = 2 THEN n[2] ELSE n[1] >>)

IsErrorValue(result) == ~result.ok /\ ~result.panic

WitnessC11Defaults ==
    /\ transformed.some
    /\ transformed.val.ok
    /\ \/ /\ transform_text = TransformText("scale", << 180 >>, << Comma >>)
          /\ transformed.val.val = << << 180, 0, 0 >>, << 0, 180, 0 >>, << 0, 0, 1 >> >>
       \/ /\ transform_text = TransformText("translate", << 90 >>, << Comma >>)
          /\ transformed.val.val = << << 1, 0, 90 >>, << 0, 1, 0 >>, << 0, 0, 1 >> >>

\* C12: for a function name that is none of matrix, translate, rotate, scale,
\* parse_transform returns an error value to its caller; the process is not aborted.
ClaimC12 ==
    (transformed.some /\ transform_text.name \notin {"matrix", "translate", "rotate", "scale"}) =>
        IsErrorValue(transformed.val)

(***************************************************************************)
(* Claims about the box of path data (SpecPath)                            *)
(***************************************************************************)
\* C15: the BoundingBox derived from any path data, path data that yields no points
\* included, has width >= 0 and height >= 0.
ClaimC15 ==
    data_box.some => (data_box.val.size[1] >= 0 /\ data_box.val.size[2] >= 0)

(***************************************************************************)
(* Claims about shoelace_area, centroid and Room::compile (SpecArea,       *)
(* SpecCentroid)                                                           *)
(***************************************************************************)
\* (a - o) x (b - o): positive when b lies to the left of the line from o to a
Cross(o, a, b) == (a[1] - o[1]) * (b[2] - o[2]) - (a[2] - o[2]) * (b[1] - o[1])

After(list, i) == list[(i % Len(list)) + 1]

\* a convex polygon listed counter-clockwise: every other vertex lies strictly to the
\* left of every edge
ConvexCounterClockwise(list) ==
    /\ Len(list) >= 3
    /\ \A i \in DOMAIN list :
          \A k \in DOMAIN list :
              (list[k] # list[i] /\ list[k] # After(list, i)) =>
                  Cross(list[i], After(list, i), list[k]) > 0
    /\ \A i, k \in DOMAIN list : i # k => list[i] # list[k]

Positive(a) == a.kind = "finite" /\ a.num > 0

Negative(a) == a.kind = "finite" /\ a.num < 0

FNeg(a) == IF a.kind = "finite" THEN Fin(0 - a.num, a.den) ELSE a

\* C17: shoelace_area is positive for a convex polygon listed counter-clockwise and
\* negative for one listed clockwise; the area of the list rotated cyclically is the
\* area of the list, the area of the reversed list is its negation.
ClaimC17 ==
    /\ (poly_area.some /\ ConvexCounterClockwise(polygon)) => Positive(poly_area.val)
    /\ (poly_area.some /\ ConvexCounterClockwise(Reversed(polygon))) =>
            Negative(poly_area.val)
    /\ poly_rotated.some => poly_rotated.val.area = poly_area.val
    /\ poly_reversed.some => poly_reversed.val = FNeg(poly_area.val)

\* the triangle (0,0), (2,0), (1,1), counter-clockwise, of area 1, rotated by two
WitnessC17 ==
    /\ polygon = << << 0, 0 >>, << 2, 0 >>, << 1, 1 >> >>
    /\ ConvexCounterClockwise(polygon)
    /\ poly_area = Some(F32(1))
    /\ poly_rotated = Some([by |-> 2, area |-> F32(1)])
    /\ poly_reversed = Some(F32(0 - 1))

Square == << << 0, 0 >>, << 0, 2 >>, << 2, 2 >>, << 2, 0 >> >>

\* C18 as stated: for the square (0,0), (0,2), (2,2), (2,0), centroid returns (1,1)
\* and the signed-area formula gives 4.
ClaimC18 ==
    polygon = Square =>
        /\ poly_center.some => poly_center.val = << F32(1), F32(1) >>
        /\ poly_area.some => poly_area.val = F32(4)

\* C18, amended: for the square (0,0), (0,2), (2,2), (2,0), centroid returns (1,1);
\* shoelace_area returns -4, the list being clockwise for the formula; the area
\* Room::compile stores, its absolute value, is 4.
ClaimC18Amended ==
    polygon = Square =>
        /\ poly_center.some => poly_center.val = << F32(1), F32(1) >>
        /\ poly_area.some => poly_area.val = F32(0 - 4)
        /\ compiled.some => compiled.val.area = F32(4)

WitnessC18 ==
    /\ polygon = Square
    /\ poly_center = Some(<< F32(1), F32(1) >>)
    /\ poly_area = Some(F32(0 - 4))
    /\ compiled.some
    /\ ~room.center.some
    /\ compiled.val.center = << F32(1), F32(1) >>

\* fewer than 3 points, or all points on one line
Degenerate(list) ==
    \/ Len(list) < 3
    \/ \A i, j, k \in DOMAIN list : Cross(list[i], list[j], list[k]) = 0

IsFinitePoint(point) == point[1].kind = "finite" /\ point[2].kind = "finite"

\* C19: for a polygon of fewer than 3 points or of collinear points, centroid does
\* not return a NaN or infinite point, and Room::compile on a room without a preset
\* center does not return a compiled room with such a center.
ClaimC19 ==
    Degenerate(polygon) =>
        /\ poly_center.some => IsFinitePoint(poly_center.val)
        /\ (compiled.some /\ ~room.center.some) => IsFinitePoint(compiled.val.center)

(***************************************************************************)
(* Claims about MapData::new, unique and undefined (SpecMap)               *)
(***************************************************************************)
\* the positions of a list whose item occurs at an earlier position too
Repeats(list) == { j \in DOMAIN list : \E i \in 1..(j - 1) : list[i] = list[j] }

\* the positions of a list whose item is not in a set
Missing(list, set) == { i \in DOMAIN list : list[i] \notin set }

Least(positions) == CHOOSE i \in positions : \A j \in positions : i <= j

FloorList(d) == [ i \in DOMAIN d.floors |-> d.floors[i].number ]

Keys(d) == { d.vertices[i].id : i \in DOMAIN d.vertices }

UndeclaredFloors(d) == { d.vertices[i].floor : i \in DOMAIN d.vertices } \ Range(FloorList(d))

UnknownRoomIds(d) == UNION { Range(d.rooms[i].vertices) : i \in DOMAIN d.rooms } \ Keys(d)

EdgeIds(d) == edge_vertex_ids(d.edges)

UnknownEdgeIds(d) == Range(EdgeIds(d)) \ Keys(d)

IsError(result, error, values) ==
    /\ ~result.ok
    /\ ~result.panic
    /\ result.err.error = error
    /\ result.err.of \in values

\* what MapData::new is to return for the MapData d
Rejects(result, d) ==
    CASE Repeats(FloorList(d)) # {} ->
            IsError(result, "RepeatedFloorNumber",
                    {FloorList(d)[Least(Repeats(FloorList(d)))]})
      [] UndeclaredFloors(d) # {} -> IsError(result, "UndefinedFloorNumber", UndeclaredFloors(d))
      [] UnknownRoomIds(d) # {} -> IsError(result, "UndefinedVertexId", UnknownRoomIds(d))
      [] UnknownEdgeIds(d) # {} -> IsError(result, "UndefinedVertexId", UnknownEdgeIds(d))
      [] OTHER -> result = Ok(d)

OwnTransform(element) ==
    IF "transform" \in DOMAIN element.attributes
    THEN parse_transform(element.attributes["transform"]).val
    ELSE Identity

RECURSIVE ProductDownTo(_, _, _)
\* the product of the transforms written on the first k + 1 elements of the path p:
\* the root's on the left, that of the node k steps down on the right
ProductDownTo(t, p, k) ==
    IF k = 0 THEN MatMul(Identity, OwnTransform(t))
    ELSE MatMul(ProductDownTo(t, p, k - 1), OwnTransform(NodeAt(t, SubSeq(p, 1, k))))

\* the product of the transforms of the ancestors of the node at p and of the node
Cumulative(t, p) == ProductDownTo(t, p, Len(p))

\* the top-left corner of the element in its own coordinates
LocalTopLeft(element) == local_geometry(element.tag_name, element.attributes).val[2]

\* the image of the point under the affine transform
Applied(matrix, point) ==
    << matrix[1][1] * point[1] + matrix[1][2] * point[2] + matrix[1][3],
       matrix[2][1] * point[1] + matrix[2][2] * point[2] + matrix[2][3] >>

\* C21: the top-left corner of every element of a built tree is its local top-left
\* mapped through the product, from the root down to the element and starting from
\* the identity, of the transforms written on its ancestors and on itself; elements
\* without a transform contribute nothing, and neither do elements that are not
\* ancestors (earlier siblings and their subtrees).  translate(1,1) composed with
\* scale(2) maps (0,0) to (1,1) and (1,0) to (3,1).
ClaimC21 ==
    (parsed.some /\ parsed.val.ok) =>
        /\ \A p \in Range(Preorder(parsed.val.val)) :
              NodeAt(parsed.val.val, p).bounding_box.top_left =
                  Applied(Cumulative(parsed.val.val, p),
                          LocalTopLeft(NodeAt(parsed.val.val, p)))
        /\ events = TransformExample =>
              /\ NodeAt(parsed.val.val, << 1 >>).bounding_box.top_left = << 1, 1 >>
              /\ NodeAt(parsed.val.val, << 1, 1 >>).bounding_box.top_left = << 3, 1 >>

\* the rect after the translated group is not translated, the rect inside it is
WitnessC21 ==
    /\ parsed.some
    /\ parsed.val.ok
    /\ events = SiblingExample
    /\ NodeAt(parsed.val.val, << 1, 1 >>).bounding_box.top_left = << 1, 2 >>
    /\ NodeAt(parsed.val.val, << 2 >>).bounding_box.top_left = << 0, 0 >>

\* the example of C21 has been built
WitnessC21Example ==
    /\ parsed.some
    /\ parsed.val.ok
    /\ events = TransformExample
    /\ NodeAt(parsed.val.val, << 1, 1 >>).bounding_box.top_left = << 3, 1 >>


\* the open and self-closing tags of the stream, in order: from_svg_data builds one
\* node for each one it reads, so the i-th node in preorder is built from the i-th
OpenTags(stream) == SelectSeq(stream, LAMBDA event : IsTag(event, {"Start", "Empty"}))

\* the size of the element in its own coordinates
LocalSize(element) == local_geometry(element.tag_name, element.attributes).val[1]

\* the element's own rectangle: the image of its local top-left, and its local size
OwnRectangle(t, p) ==
    BoundingBox_new(Applied(Cumulative(t, p), LocalTopLeft(NodeAt(t, p))),
                    LocalSize(NodeAt(t, p)))

MaxOf(numbers) == CHOOSE m \in numbers : \A n \in numbers : n <= m

\* the right (axis 1) or bottom (axis 2) edge of the own rectangle and of the boxes of
\* the direct children
Edges(t, p, axis) ==
    { get_bottom_right(OwnRectangle(t, p))[axis] }
    \cup { get_bottom_right(NodeAt(t, p).children[i].bounding_box)[axis] :
             i \in DOMAIN NodeAt(t, p).children }

BodyBox(t, p) ==
    /\ NodeAt(t, p).bounding_box.top_left = OwnRectangle(t, p).top_left
    /\ get_bottom_right(NodeAt(t, p).bounding_box) =
          << MaxOf(Edges(t, p, 1)), MaxOf(Edges(t, p, 2)) >>
    /\ NodeAt(t, p).children = << >> => NodeAt(t, p).bounding_box = OwnRectangle(t, p)

\* C22: the box of an element built from an open tag has the element's own global
\* top-left, and its bottom-right is the componentwise maximum of the bottom-right
\* of its own rectangle and of the boxes of its direct children; without children
\* the box is the own rectangle.  Own rectangle (0,0) size (2,2) with one child at
\* (20,20) size (5,5) gives top-left (0,0), size (25,25).
ClaimC22 ==
    (parsed.some /\ parsed.val.ok) =>
        /\ \A i \in DOMAIN Preorder(parsed.val.val) :
              /\ NodeAt(parsed.val.val, Preorder(parsed.val.val)[i]).tag_name
                    = OpenTags(events)[i].name
              /\ OpenTags(events)[i].type = "Start" =>
                    BodyBox(parsed.val.val, Preorder(parsed.val.val)[i])
        /\ events = ContainerExample =>
              parsed.val.val.bounding_box = BoundingBox_new(<< 0, 0 >>, << 25, 25 >>)

WitnessC22 ==
    /\ parsed.some
    /\ parsed.val.ok
    /\ events = ContainerExample
    /\ parsed.val.val.bounding_box = BoundingBox_new(<< 0, 0 >>, << 25, 25 >>)
    /\ parsed.val.val.children[1].bounding_box = BoundingBox_new(<< 20, 20 >>, << 5, 5 >>)

\* an element with children whose own right and bottom edges are the largest
WitnessC22Own ==
    /\ parsed.some
    /\ parsed.val.ok
    /\ parsed.val.val.children # << >>
    /\ parsed.val.val.bounding_box = OwnRectangle(parsed.val.val, << >>)
    /\ parsed.val.val.bounding_box # parsed.val.val.children[1].bounding_box


\* the number of the attribute, 0 when the element does not have the attribute
AttributeOr0(attributes, key) ==
    IF key \in DOMAIN attributes THEN attributes[key].n ELSE 0

\* the rectangle x, y, width, height of the attributes, its corner mapped through the
\* product of the transforms down to the node at p
AttributeRectangle(t, p) ==
    BoundingBox_new(
        Applied(Cumulative(t, p),
                << AttributeOr0(NodeAt(t, p).attributes, "x"),
                   AttributeOr0(NodeAt(t, p).attributes, "y") >>),
        << AttributeOr0(NodeAt(t, p).attributes, "width"),
           AttributeOr0(NodeAt(t, p).attributes, "height") >>)

\* C23: for every element whose tag is not path the local top-left is (x, y) and the
\* size is (width, height) of its attributes, 0 for an attribute it does not have;
\* the box of a self-closing one is the effective transform applied to that
\* top-left, with that size, and it has no children.  x=0, y=0, width=10, height=5
\* without a transform gives top-left (0,0), size (10,5).
ClaimC23 ==
    (parsed.some /\ parsed.val.ok) =>
        /\ \A i \in DOMAIN Preorder(parsed.val.val) :
              OpenTags(events)[i].name # "path" =>
                /\ NodeAt(parsed.val.val, Preorder(parsed.val.val)[i]).attributes
                      = OpenTags(events)[i].attributes
                /\ OwnRectangle(parsed.val.val, Preorder(parsed.val.val)[i])
                      = AttributeRectangle(parsed.val.val, Preorder(parsed.val.val)[i])
                /\ OpenTags(events)[i].type = "Empty" =>
                      /\ NodeAt(parsed.val.val, Preorder(parsed.val.val)[i]).bounding_box
                            = AttributeRectangle(parsed.val.val, Preorder(parsed.val.val)[i])
                      /\ NodeAt(parsed.val.val, Preorder(parsed.val.val)[i]).children = << >>
        /\ events = RectangleExample =>
              parsed.val.val.bounding_box = BoundingBox_new(<< 0, 0 >>, << 10, 5 >>)

WitnessC23 ==
    /\ parsed.some
    /\ parsed.val.ok
    /\ events = RectangleExample
    /\ parsed.val.val.bounding_box = BoundingBox_new(<< 0, 0 >>, << 10, 5 >>)
    /\ parsed.val.val.children = << >>

\* a self-closing element of another tag without x, y, width or height, under a
\* translated group: its box is the empty rectangle at the translation
WitnessC23Absent ==
    /\ parsed.some
    /\ parsed.val.ok
    /\ events = CircleExample
    /\ parsed.val.val.children[1].tag_name = "circle"
    /\ parsed.val.val.children[1].bounding_box = BoundingBox_new(<< 1, 2 >>, << 0, 0 >>)


(***************************************************************************)
(* Claims about the points of the path interpreter (SpecPath)              *)
(***************************************************************************)
\* the parameters of one group
Arity(kind) ==
    CASE kind \in {"Move", "Line", "SmoothQuadraticCurve"} -> 2
      [] kind \in {"QuadraticCurve", "SmoothCubicCurve"} -> 4
      [] kind = "CubicCurve" -> 6
      [] kind = "EllipticalArc" -> 7
      [] kind \in {"HorizontalLine", "VerticalLine"} -> 1

\* floor(parameter count / arity), 0 for Close
PointsOf(command) ==
    IF command.kind = "Close" THEN 0
    ELSE Len(command.parameters) \div Arity(command.kind)

RECURSIVE PointsBefore(_, _)
\* the points of the first j raw commands
PointsBefore(raw, j) ==
    IF j = 0 THEN 0 ELSE PointsBefore(raw, j - 1) + PointsOf(raw[j])

\* the last two values of the i-th group of the command
LastTwo(command, i) ==
    << command.parameters[i * Arity(command.kind) - 1],
       command.parameters[i * Arity(command.kind)] >>

\* C24: the interpreter emits one point for every complete parameter group (2 values
\* for Move, Line, SmoothQuadraticCurve; 4 for QuadraticCurve, SmoothCubicCurve; 6
\* for CubicCurve; 7 for EllipticalArc; 1 for HorizontalLine, VerticalLine) and none
\* for Close, in command order: the points are as many as the sum over the commands
\* of floor(parameter count / arity), and the destination of a group of two or more
\* values is its last two values, taken as they are (Absolute) or added to the
\* running point (Relative).
ClaimC24 ==
    path.some =>
        /\ Len(path.val) = PointsBefore(raw_commands, Len(raw_commands))
        /\ \A j \in DOMAIN raw_commands : \A i \in 1..PointsOf(raw_commands[j]) :
              Arity(raw_commands[j].kind) >= 2 =>
                  path.val[PointsBefore(raw_commands, j - 1) + i] =
                      IF raw_commands[j].position = "Absolute"
                      THEN LastTwo(raw_commands[j], i)
                      ELSE VAdd(Running(path.val, PointsBefore(raw_commands, j - 1) + i),
                                LastTwo(raw_commands[j], i))

\* C 7 7 8 8 5 3  9 9 9 9 2 6  1,  Z,  L 4 2 9: two points, none, one point
WitnessC24 ==
    /\ path.some
    /\ raw_commands =
          << RawCommand("CubicCurve", "Absolute", << 7, 7, 8, 8, 5, 3, 9, 9, 9, 9, 2, 6, 1 >>),
             RawCommand("Close", "Absolute", << >>),
             RawCommand("Line", "Absolute", << 4, 2, 9 >>) >>
    /\ path.val = << << 5, 3 >>, << 2, 6 >>, << 4, 2 >> >>


\* the rectangle of the element in its own coordinates: the extent of the points of
\* a path, the rectangle of the attributes of any other element
LocalBox(element) ==
    IF element.tag_name = "path"
    THEN BoundingBox_from(element.attributes["d"].data)
    ELSE BoundingBox_new(<< AttributeOr0(element.attributes, "x"),
                            AttributeOr0(element.attributes, "y") >>,
                         << AttributeOr0(element.attributes, "width"),
                            AttributeOr0(element.attributes, "height") >>)

\* C28: only the top-left corner of an element is mapped through the effective
\* transform T, the size (width and height, or the extent of the path) is stored as
\* it is: the box of an element without children is (T applied to the local
\* top-left, local size).  Under scale(2) a rect of width 10 has a box of width 10.
ClaimC28 ==
    (parsed.some /\ parsed.val.ok) =>
        /\ \A p \in Range(Preorder(parsed.val.val)) :
              NodeAt(parsed.val.val, p).children = << >> =>
                  NodeAt(parsed.val.val, p).bounding_box =
                      BoundingBox_new(
                          Applied(Cumulative(parsed.val.val, p),
                                  LocalBox(NodeAt(parsed.val.val, p)).top_left),
                          LocalBox(NodeAt(parsed.val.val, p)).size)
        /\ events = ScaledExample =>
              parsed.val.val.children[1].bounding_box
                  = BoundingBox_new(<< 2, 2 >>, << 10, 5 >>)

WitnessC28 ==
    /\ parsed.some
    /\ parsed.val.ok
    /\ events = ScaledExample
    /\ parsed.val.val.children[1].bounding_box = BoundingBox_new(<< 2, 2 >>, << 10, 5 >>)

\* a path with the extent (1,1) size (2,1) under scale(2): the box is (2,2) size (2,1)
WitnessC28Path ==
    /\ parsed.some
    /\ parsed.val.ok
    /\ Len(parsed.val.val.children) = 1
    /\ OwnTransform(parsed.val.val) = scale(<< 2, 2 >>)
    /\ parsed.val.val.children[1].tag_name = "path"
    /\ parsed.val.val.children[1].bounding_box = BoundingBox_new(<< 2, 2 >>, << 2, 1 >>)

(***************************************************************************)
(* Claims about the events the tree builder reads (SpecParse)              *)
(***************************************************************************)
IsIgnorable(event) == event.kind \in {"Text", "Comment", "Declaration", "Instruction"}

\* the stream without its ignorable events
WithoutIgnorable(stream) == SelectSeq(stream, LAMBDA event : ~IsIgnorable(event))

\* the ignorable events the stream begins with
Leading(stream) ==
    Cardinality({ i \in DOMAIN stream : \A j \in 1..i : IsIgnorable(stream[j]) })

\* the stream after the ignorable events it begins with
Root(stream) == SubSeq(stream, Leading(stream) + 1, Len(stream))

\* C25: from_svg_data returns the root element of a stream that is any number of
\* ignorable events (text, comment, declaration, processing instruction) followed by
\* a root element that is built without them, and ignorable events anywhere else
\* change nothing: the tree is the tree of the stream without its ignorable events.
ClaimC25 ==
    parsed.some =>
        /\ from_svg_data(Root(events)).ok => parsed.val = from_svg_data(Root(events))
        /\ from_svg_data(WithoutIgnorable(events)).ok =>
              parsed.val = from_svg_data(WithoutIgnorable(events))


(***************************************************************************)
(* Claims about the zoom range of the tile enumerator (SpecTilesLive)      *)
(***************************************************************************)
\* C26: for min_zoom > max_zoom the calls of next() do not return None at once:
\* they return the 4^min_zoom coordinates of zoom min_zoom, row by row with the
\* column changing fastest, and then None; main's loop reaches that None.
ClaimC26 ==
    /\ [](min_zoom > iter.max_zoom_level =>
            /\ YieldsInOrder(LevelCoords(min_zoom))
            /\ nones > 0 => Len(yielded) = 4 ^ min_zoom
            /\ \A i \in DOMAIN yielded : yielded[i].zoom = min_zoom)
    /\ (min_zoom > iter.max_zoom_level /\ nones = 0) ~> (nones >= 1)

\* TileIterator::new(2, 0): the 16 coordinates of zoom 2, then None
WitnessC26 ==
    /\ min_zoom = 2
    /\ iter.max_zoom_level = 0
    /\ nones >= 1
    /\ Len(yielded) = 16
    /\ yielded[2] = TileCoords_new(<< 1, 0 >>, 2)
    /\ yielded[5] = TileCoords_new(<< 0, 1 >>, 2)
    /\ yielded[16] = TileCoords_new(<< 3, 3 >>, 2)


(***************************************************************************)
(* Claims about the width of 2^zoom (SpecZoom)                             *)
(***************************************************************************)
\* the number a word below 2^31 stands for
AsNumber(word) == word[1] * 2 ^ 16 + word[2]

\* the outcome is the number n in every build
Computes(result, n) ==
    /\ ~result.overflow
    /\ result.res.ok
    /\ result.res.val[1] < 2 ^ 15
    /\ AsNumber(result.res.val) = n

\* the outcome is an overflow: a panic in the build that checks, and a word in the
\* build that does not
Overflows(result) ==
    /\ result.overflow
    /\ build = "debug" => (~result.res.ok /\ result.res.panic)
    /\ build = "release" => result.res.ok

\* C27: max_coords_for_zoom_level computes 2_u32.pow(zoom) - 1, which overflows
\* exactly for zoom >= 32, and bounds_for_tile_coords computes 2_i32.pow(zoom), which
\* overflows exactly for zoom >= 31; for every zoom <= 30 they are 2^zoom - 1 and
\* 2^zoom.
ClaimC27 ==
    /\ coords_pow.some =>
          /\ wide_zoom >= 32 <=> Overflows(coords_pow.val)
          /\ wide_zoom < 32 <=> ~coords_pow.val.overflow
          /\ wide_zoom <= 30 =>
                /\ Computes(coords_pow.val, 2 ^ wide_zoom - 1)
                /\ Computes(coords_pow.val, max_coords_for_zoom_level(wide_zoom))
    /\ bounds_pow.some =>
          /\ wide_zoom >= 31 <=> Overflows(bounds_pow.val)
          /\ wide_zoom < 31 <=> ~bounds_pow.val.overflow
          /\ wide_zoom <= 30 => Computes(bounds_pow.val, 2 ^ wide_zoom)

\* zoom 31 in a build without overflow checks: the last column is 2^31 - 1, the
\* divisor of the edge length has wrapped to -2^31 (the word 0x80000000)
WitnessC27 ==
    /\ wide_zoom = 31
    /\ build = "release"
    /\ coords_pow = Some([res |-> Ok(<< 2 ^ 15 - 1, 2 ^ 16 - 1 >>), overflow |-> FALSE])
    /\ bounds_pow = Some([res |-> Ok(<< 2 ^ 15, 0 >>), overflow |-> TRUE])

\* zoom 32: a panic with overflow checks
WitnessC27Panic ==
    /\ wide_zoom = 32
    /\ build = "debug"
    /\ coords_pow.some
    /\ coords_pow.val.res = Panic("arithmetic overflow")


\* after i events an element has been opened and every open tag has its close tag
Closed(stream, i) ==
    /\ Depth(stream, i) = 0
    /\ \E j \in 1..i : IsTag(stream[j], {"Start", "Empty"})

\* the events up to the one that ends the root element, all of them when none does
UpToRootEnd(stream) ==
    IF \E i \in DOMAIN stream : Closed(stream, i)
    THEN SubSeq(stream, 1, CHOOSE i \in DOMAIN stream :
                              Closed(stream, i) /\ \A j \in 1..(i - 1) : ~Closed(stream, j))
    ELSE stream

\* the stream with the name of every close tag replaced
Renamed(stream, name) ==
    [ i \in DOMAIN stream |->
        IF IsTag(stream[i], {"End"}) THEN [stream[i] EXCEPT !.name = name] ELSE stream[i] ]

\* C29: the child list of an element ends at the first close tag, whatever its name,
\* or at the end of the stream: a stream whose root element is left open gives what
\* the stream with the close tag added gives (Ok with the children read so far when
\* nothing else is wrong), the names of the close tags do not matter, and the events
\* after the close of the root element are not read.
ClaimC29 ==
    parsed.some =>
        /\ Unclosed(events) =>
              parsed.val = from_svg_data(Append(events, Tag(events[1].name, "End", NoAttributes)))
        /\ events \in { << e >> : e \in { e \in EventAlphabet : IsTag(e, {"Start"}) } } =>
              /\ parsed.val.ok
              /\ parsed.val.val.children = << >>
        /\ parsed.val = from_svg_data(Renamed(events, "svg"))
        /\ parsed.val = from_svg_data(UpToRootEnd(events))
        /\ from_svg_data_at(events).pos <= Len(UpToRootEnd(events)) + 1

\* <g><rect/></svg><rect/>: Ok(g with the first rect), the second rect is not read
WitnessC29 ==
    /\ parsed.some
    /\ events = MismatchExample
    /\ parsed.val.ok
    /\ Len(parsed.val.val.children) = 1
    /\ from_svg_data_at(events).pos = 4

\* <g><g><rect/> without a close tag: Ok, the rect in the inner group
WitnessC29Open ==
    /\ parsed.some
    /\ Len(events) = 3
    /\ Unclosed(events)
    /\ parsed.val.ok
    /\ Len(parsed.val.val.children) = 1
    /\ Len(parsed.val.val.children[1].children) = 1

(***************************************************************************)
(* Claims about the map compiler (SpecCompile)                             *)
(***************************************************************************)
\* the room shapes of the image of floor i in document order, each with its number and
\* the outline it has with the offsets of that floor
DrawnOn(i) ==
    [ j \in DOMAIN svg_rooms(image_files[uncompiled_map.floors[i].image].val) |->
        [number |-> svg_rooms(image_files[uncompiled_map.floors[i].image].val)[j].number,
         outline |->
             SvgRoom_outline(svg_rooms(image_files[uncompiled_map.floors[i].image].val)[j],
                             uncompiled_map.floors[i].offsets)] ]

RECURSIVE DrawnUpTo(_)
\* the room shapes of the first n floors, in floor order, then document order
DrawnUpTo(n) == IF n = 0 THEN << >> ELSE DrawnUpTo(n - 1) \o DrawnOn(n)

Drawn == DrawnUpTo(Len(uncompiled_map.floors))

DrawnNumbers == { Drawn[j].number : j \in DOMAIN Drawn }

\* the first shape that carries the number
FirstDrawn(number) ==
    Drawn[CHOOSE j \in DOMAIN Drawn :
              /\ Drawn[j].number = number
              /\ \A k \in 1..(j - 1) : Drawn[k].number # number]

Returned == compiled_map.some /\ compiled_map.val.ok

\* C30: when compile returns, the compiled rooms are those of the numbers that are
\* both declared in the map data and drawn in some floor image: a declared room no
\* shape draws and a shape of an undeclared number give no compiled room; the
\* outline of a compiled room is that of the first shape of its number, in floor
\* order, then document order; its vertices are those of the declared room, its
\* center the preset center when there is one and the centroid of the outline when
\* not, its area the absolute value of the signed area of the outline; floors,
\* vertices and edges are those of the map data.
ClaimC30 ==
    Returned =>
        /\ DOMAIN compiled_map.val.val.rooms = DOMAIN uncompiled_map.rooms \cap DrawnNumbers
        /\ \A number \in DOMAIN compiled_map.val.val.rooms :
              /\ compiled_map.val.val.rooms[number].outline = FirstDrawn(number).outline
              /\ compiled_map.val.val.rooms[number].vertices
                     = uncompiled_map.rooms[number].vertices
              /\ compiled_map.val.val.rooms[number].center
                     = IF uncompiled_map.rooms[number].center.some
                       THEN uncompiled_map.rooms[number].center.val
                       ELSE centroid(FirstDrawn(number).outline)
              /\ compiled_map.val.val.rooms[number].area
                     = FAbs(shoelace_area(FirstDrawn(number).outline))
        /\ compiled_map.val.val.floors = uncompiled_map.floors
        /\ compiled_map.val.val.vertices = uncompiled_map.vertices
        /\ compiled_map.val.val.edges = uncompiled_map.edges

\* compile has returned for a map with two floors where a declared room is drawn
\* twice with different outlines, a shape carries an undeclared number and a
\* declared room is drawn nowhere
WitnessC30 ==
    /\ Returned
    /\ Len(uncompiled_map.floors) = 2
    /\ \E j, k \in DOMAIN Drawn :
          /\ j < k
          /\ Drawn[j].number = Drawn[k].number
          /\ Drawn[j].number \in DOMAIN compiled_map.val.val.rooms
          /\ Drawn[j].outline # Drawn[k].outline
    /\ DrawnNumbers \ DOMAIN uncompiled_map.rooms # {}
    /\ DOMAIN uncompiled_map.rooms \ DrawnNumbers # {}

\* compile has returned a room whose outline has a negative signed area and whose
\* preset center is not the centroid of the outline
WitnessC30Area ==
    /\ Returned
    /\ \E number \in DOMAIN compiled_map.val.val.rooms :
          /\ Negative(shoelace_area(compiled_map.val.val.rooms[number].outline))
          /\ uncompiled_map.rooms[number].center.some
          /\ compiled_map.val.val.rooms[number].center
                 # centroid(compiled_map.val.val.rooms[number].outline)

\* compile has returned for the floor image whose first room shapes do not parse
WitnessC30Skipped ==
    /\ Returned
    /\ \E i \in DOMAIN uncompiled_map.floors :
          image_files[uncompiled_map.floors[i].image] = Some(SkippedExample)
    /\ {"101", "102"} \subseteq DOMAIN compiled_map.val.val.rooms
====
